---- MODULE Spec2Model ----
(***************************************************************************)
(* Execution engine of super-fair-vm-rs: the operand stack, the linear     *)
(* memory, the opcode table and the fetch-decode-execute loop of the       *)
(* Executor, in the two copies the repository holds (crate fairvm and      *)
(* crate fair-vm-core).                                                    *)
(*                                                                         *)
(* A 256-bit word (ethers U256) is the sequence of its 32 big-endian       *)
(* bytes, most significant first, which is also what to_big_endian writes  *)
(* to memory and to storage keys.  Arithmetic is done on the bytes, so     *)
(* the wrap at 2^256 is exact.  usize and u64 quantities are naturals;     *)
(* the inputs keep them far below 2^64.                                    *)
(***************************************************************************)
EXTENDS Integers, Sequences, FiniteSets, TLC

\* ------------------------------------------------------------------------
\* Bounds of the model
\* ------------------------------------------------------------------------
\* longest enumerated program, in instructions
MaxInstrs == 3

\* longest enumerated program of the termination runs, in instructions
MaxLiveInstrs == 2

\* longest enumerated program of the fair-vm-core runs, in instructions
MaxCoreInstrs == 3

\* most calls that change a Memory driven through its API
MaxMemCalls == 3

\* largest max_depth handed to Stack::with_max_depth
MaxDepthBound == 3

\* ------------------------------------------------------------------------
\* 256-bit words
\* ------------------------------------------------------------------------
Byte == 0..255

WordLen == 32

Zeros(n) == [i \in 1..n |-> 0]

\* U256::zero()
U256Zero == Zeros(WordLen)

\* U256::one()
U256One == [i \in 1..WordLen |-> IF i = WordLen THEN 1 ELSE 0]

\* U256::MAX
U256Max == [i \in 1..WordLen |-> 255]

\* the byte string f as a sequence whose bytes are computed once
Bytes(f) == f \o <<>>

\* U256::from(n) for a natural below 2^31
U256From(n) ==
    Bytes([i \in 1..WordLen |->
              IF i <= WordLen - 4 THEN 0 ELSE (n \div 256 ^ (WordLen - i)) % 256])

\* U256::is_zero
is_zero(a) == a = U256Zero

\* the natural a word below 2^31 denotes: the value of its low four bytes
BytesToNat(a) ==
    LET n == Len(a)
    IN  a[n - 3] * 16777216 + a[n - 2] * 65536 + a[n - 1] * 256 + a[n]

\* U256::as_usize / as_u64: panics ("Integer overflow when casting") when the
\* value does not fit in 64 bits, else the value of the low 8 bytes
FitsWord64(a) == \A i \in 1..(WordLen - 8) : a[i] = 0

as_usize(a) == BytesToNat(a)

\* x < y on big-endian byte strings of one length
BytesLt(x, y) ==
    \E i \in 1..Len(x) : x[i] < y[i] /\ \A j \in 1..(i - 1) : x[j] = y[j]

\* a < b on words
U256Lt(a, b) == BytesLt(a, b)

\* The carry into byte i of x + y + cin: a carry that a lower byte produces,
\* or cin itself, and that every byte in between hands on.
CarryInto(x, y, cin, i) ==
    \/ \E j \in (i + 1)..Len(x) :
          /\ x[j] + y[j] > 255
          /\ \A k \in (i + 1)..(j - 1) : x[k] + y[k] = 255
    \/ cin = 1 /\ \A k \in (i + 1)..Len(x) : x[k] + y[k] = 255

\* x + y + cin on byte strings of one length, the carry out dropped
AddBytes(x, y, cin) ==
    Bytes([i \in 1..Len(x) |->
              (x[i] + y[i] + (IF CarryInto(x, y, cin, i) THEN 1 ELSE 0)) % 256])

\* an add that saturates at U256::MAX instead of wrapping
saturating_add(a, b) ==
    LET sum == AddBytes(a, b, 0)
    IN  IF U256Lt(sum, a) THEN U256Max ELSE sum

\* U256::overflowing_add(..).0
overflowing_add(a, b) == AddBytes(a, b, 0)

\* !a
bitnot(a) == Bytes([i \in 1..Len(a) |-> 255 - a[i]])

\* U256::overflowing_sub(..).0 : a - b mod 2^256 = a + !b + 1
overflowing_sub(a, b) == AddBytes(a, bitnot(b), 1)

\* U256::overflowing_mul(..).0 : schoolbook product, columns above 2^256 dropped.
\* Limb k (0 = least significant) of a word is a[WordLen - k]; ColSum is the
\* sum of the products a_i * b_(k - i) for i in lo..hi, below 2^24.
RECURSIVE ColSum(_, _, _, _, _)
ColSum(a, b, k, lo, hi) ==
    IF lo > hi THEN 0
    ELSE IF lo = hi THEN a[WordLen - lo] * b[WordLen - (k - lo)]
    ELSE LET mid == (lo + hi) \div 2
         IN  ColSum(a, b, k, lo, mid) + ColSum(a, b, k, mid + 1, hi)

\* the word whose limb k is byte n (0, 1 or 2) of the column sum of limb k - n
ColBytes(a, b, n) ==
    Bytes([i \in 1..WordLen |->
              LET k == WordLen - i - n
              IN  IF k < 0 THEN 0
                  ELSE (ColSum(a, b, k, 0, k) \div 256 ^ n) % 256])

overflowing_mul(a, b) ==
    AddBytes(AddBytes(ColBytes(a, b, 0), ColBytes(a, b, 1), 0),
             ColBytes(a, b, 2), 0)

\* bitwise operators on one byte, bit by bit
RECURSIVE BitOp8(_, _, _, _)
BitOp8(op, x, y, n) ==
    IF n = 0 THEN 0
    ELSE LET bx == x % 2
             by == y % 2
             b  == CASE op = "and" -> IF bx = 1 /\ by = 1 THEN 1 ELSE 0
                      [] op = "or"  -> IF bx = 1 \/ by = 1 THEN 1 ELSE 0
                      [] op = "xor" -> IF bx # by THEN 1 ELSE 0
         IN  b + 2 * BitOp8(op, x \div 2, y \div 2, n - 1)

\* a & b, a | b, a ^ b
bitand(a, b) == Bytes([i \in 1..WordLen |-> BitOp8("and", a[i], b[i], 8)])

bitor(a, b) == Bytes([i \in 1..WordLen |-> BitOp8("or", a[i], b[i], 8)])

bitxor(a, b) == Bytes([i \in 1..WordLen |-> BitOp8("xor", a[i], b[i], 8)])

\* Long division of words, one byte of the dividend at a time.  The running
\* remainder and the products b * d of b with a byte d are kept in
\* WordLen + 1 bytes.
MulSmall(b, d) ==
    AddBytes(Bytes([i \in 1..(WordLen + 1) |->
                       IF i = 1 THEN 0 ELSE (b[i - 1] * d) % 256]),
             Bytes([i \in 1..(WordLen + 1) |->
                       IF i = WordLen + 1 THEN 0 ELSE (b[i] * d) \div 256]),
             0)

\* the largest d, built from the bits below 2 * bit, with b * d <= cur
RECURSIVE QuotDigit(_, _, _, _)
QuotDigit(b, cur, d, bit) ==
    IF bit = 0 THEN d
    ELSE IF ~BytesLt(cur, MulSmall(b, d + bit))
         THEN QuotDigit(b, cur, d + bit, bit \div 2)
         ELSE QuotDigit(b, cur, d, bit \div 2)

\* byte i of the dividend a is brought down to the remainder, the next byte
\* of the quotient is found and its product with b taken off; ok as long as
\* that leaves a remainder below b, which it does unless b is zero
DivRemStep(a, b, st, i) ==
    LET cur == Tail(st.rem) \o <<a[i]>>
        d   == IF BytesLt(cur, <<0>> \o b) THEN 0 ELSE QuotDigit(b, cur, 0, 128)
        rem == IF d = 0 THEN cur ELSE AddBytes(cur, bitnot(MulSmall(b, d)), 1)
    IN  [quot |-> Append(st.quot, d), rem |-> rem,
         ok |-> st.ok /\ BytesLt(rem, <<0>> \o b)]

\* the steps for the bytes lo..hi of the dividend, in order
RECURSIVE DivRemRange(_, _, _, _, _)
DivRemRange(a, b, st, lo, hi) ==
    IF lo = hi THEN DivRemStep(a, b, st, lo)
    ELSE LET mid  == (lo + hi) \div 2
             left == DivRemRange(a, b, st, lo, mid)
         IN  IF left.ok THEN DivRemRange(a, b, left, mid + 1, hi) ELSE left

DivRem(a, b) ==
    DivRemRange(a, b,
                [quot |-> <<>>, rem |-> Zeros(WordLen + 1), ok |-> TRUE],
                1, WordLen)

\* a / b and a % b for b # 0
U256Div(a, b) == DivRem(a, b).quot

U256Rem(a, b) == Tail(DivRem(a, b).rem)

\* ------------------------------------------------------------------------
\* Error values.  An error is a record: its kind and, for InvalidOpcode(byte)
\* and InvalidIndex(index), its argument.
\* ------------------------------------------------------------------------
NoErr == [kind |-> "none", arg |-> 0]

Err(k) == [kind |-> k, arg |-> 0]

ErrArg(k, a) == [kind |-> k, arg |-> a]

\* ------------------------------------------------------------------------
\* Stack (crate fairvm, evm/stack.rs).  items: bottom first, top = last.
\* Every operation returns the stack after the call and the Result.
\* ------------------------------------------------------------------------
DefaultMaxDepth == 1024

\* Stack::new
StackNew == [items |-> <<>>, max_depth |-> DefaultMaxDepth]

\* Stack::with_max_depth
with_max_depth(max) == [items |-> <<>>, max_depth |-> max]

\* Stack::len
StackLen(s) == Len(s.items)

\* push with the depth test off by one
push_OffByOne(s, value) ==
    IF Len(s.items) > s.max_depth
    THEN [stack |-> s, err |-> Err("DepthLimitExceeded"), val |-> U256Zero]
    ELSE [stack |-> [s EXCEPT !.items = Append(@, value)], err |-> NoErr,
          val |-> U256Zero]

\* Stack::push
push(s, value) ==
    IF Len(s.items) >= s.max_depth
    THEN [stack |-> s, err |-> Err("DepthLimitExceeded"), val |-> U256Zero]
    ELSE [stack |-> [s EXCEPT !.items = Append(@, value)], err |-> NoErr,
          val |-> U256Zero]

\* Stack::pop
pop(s) ==
    IF Len(s.items) = 0
    THEN [stack |-> s, err |-> Err("Underflow"), val |-> U256Zero]
    ELSE [stack |-> [s EXCEPT !.items = SubSeq(@, 1, Len(@) - 1)],
          err |-> NoErr, val |-> s.items[Len(s.items)]]

\* Stack::peek
peek(s) ==
    IF Len(s.items) = 0
    THEN [stack |-> s, err |-> Err("Underflow"), val |-> U256Zero]
    ELSE [stack |-> s, err |-> NoErr, val |-> s.items[Len(s.items)]]

\* Stack::dup
dup(s, index) ==
    IF index >= Len(s.items)
    THEN [stack |-> s, err |-> ErrArg("InvalidIndex", index), val |-> U256Zero]
    ELSE push(s, s.items[Len(s.items) - index])

\* swap that accepts index 0
swap_NoZeroCheck(s, index) ==
    IF index >= Len(s.items)
    THEN [stack |-> s, err |-> ErrArg("InvalidIndex", index), val |-> U256Zero]
    ELSE LET len == Len(s.items)
         IN  [stack |-> [s EXCEPT !.items =
                            [@ EXCEPT ![len] = s.items[len - index],
                                      ![len - index] = s.items[len]]],
              err |-> NoErr, val |-> U256Zero]

\* Stack::swap
swap(s, index) ==
    IF index = 0 \/ index >= Len(s.items)
    THEN [stack |-> s, err |-> ErrArg("InvalidIndex", index), val |-> U256Zero]
    ELSE LET len == Len(s.items)
         IN  [stack |-> [s EXCEPT !.items =
                            [@ EXCEPT ![len] = s.items[len - index],
                                      ![len - index] = s.items[len]]],
              err |-> NoErr, val |-> U256Zero]

\* Stack::get
get(s, index) ==
    IF index >= Len(s.items)
    THEN [stack |-> s, err |-> ErrArg("InvalidIndex", index), val |-> U256Zero]
    ELSE [stack |-> s, err |-> NoErr, val |-> s.items[Len(s.items) - index]]

\* Stack::set
set(s, index, value) ==
    IF index >= Len(s.items)
    THEN [stack |-> s, err |-> ErrArg("InvalidIndex", index), val |-> U256Zero]
    ELSE [stack |-> [s EXCEPT !.items[Len(s.items) - index] = value],
          err |-> NoErr, val |-> U256Zero]

\* Stack::clear
clear(s) == [stack |-> [s EXCEPT !.items = <<>>], err |-> NoErr, val |-> U256Zero]

\* ------------------------------------------------------------------------
\* Opcode table (crate fairvm, evm/opcodes.rs)
\* ------------------------------------------------------------------------
STOP == 0
ADD == 1
MUL == 2
SUB == 3
DIV == 4
SDIV == 5
MOD == 6
SMOD == 7
SIGNEXTEND == 11
LT == 16
GT == 17
EQ == 20
ISZERO == 21
AND == 22
OR == 23
XOR == 24
NOT == 25
BYTE == 26
BLOCKHASH == 64
POP == 80
MLOAD == 81
MSTORE == 82
MSTORE8 == 83
SLOAD == 84
SSTORE == 85
JUMP == 86
JUMPI == 87
PC == 88
MSIZE == 89
GAS == 90
JUMPDEST == 91
PUSH1 == 96
PUSH2 == 97
PUSH32 == 127
DUP1 == 128
DUP2 == 129
DUP16 == 143
SWAP1 == 144
SWAP2 == 145
SWAP16 == 159
LOG0 == 160
LOG1 == 161
LOG2 == 162
LOG3 == 163
LOG4 == 164
CREATE == 240
CALL == 241
CALLCODE == 242
RETURN == 243
DELEGATECALL == 244
CREATE2 == 245
STATICCALL == 250
REVERT == 253
INVALID == 254
SELFDESTRUCT == 255

\* the discriminants enum Opcode declares
Declared ==
    (0..11) \cup (16..29) \cup {32} \cup (48..63) \cup (64..72) \cup (80..91)
    \cup {PUSH1, PUSH2, PUSH32} \cup {DUP1, DUP2, DUP16}
    \cup {SWAP1, SWAP2, SWAP16} \cup (160..164) \cup (240..245)
    \cup {STATICCALL, REVERT, INVALID, SELFDESTRUCT}

\* Opcode::gas_cost for a declared opcode
gas_cost(op) ==
    CASE op \in {STOP, JUMPDEST} -> 0
      [] op \in {ADD, SUB, NOT, LT, GT, 18, 19, EQ, ISZERO, AND, OR, XOR, BYTE,
                 27, 28, 29, POP, PUSH1, PUSH2, PUSH32, DUP1, DUP2, DUP16,
                 SWAP1, SWAP2, SWAP16} -> 3
      [] op \in {MUL, DIV, SDIV, MOD, SMOD, SIGNEXTEND} -> 5
      [] op \in {MLOAD, MSTORE, MSTORE8} -> 3
      [] op = SLOAD -> 200
      [] op = SSTORE -> 20000
      [] op \in {48, 50, 51, 52, 54, 56, 58, 61} -> 2
      [] op = BLOCKHASH -> 20
      [] op \in {65, 66, 67, 68, 69} -> 2
      [] op = LOG0 -> 375
      [] op = LOG1 -> 750
      [] op = LOG2 -> 1125
      [] op = LOG3 -> 1500
      [] op = LOG4 -> 1875
      [] op = CREATE -> 32000
      [] op = CALL -> 700
      [] op = CALLCODE -> 700
      [] op = RETURN -> 0
      [] op = DELEGATECALL -> 700
      [] op = CREATE2 -> 32000
      [] op = STATICCALL -> 700
      [] op = REVERT -> 0
      [] op = SELFDESTRUCT -> 5000
      [] OTHER -> 3

\* every value some arm of gas_cost yields
GasCostValues == {gas_cost(op) : op \in Declared}

\* Opcode::from_u8 transmutes the byte and always answers Some.  For a byte
\* that is a declared discriminant the result is that opcode.  For any other
\* byte the result is an invalid enum value (undefined behaviour): each match
\* on it may take any of its arms.  FromU8Gas is what gas_cost may then
\* answer, FromU8Arms the opcodes whose arm execute_opcode may then take; the
\* byte itself stands for the arms that test "op as u8" (PUSH, DUP, SWAP) and
\* for the wildcard arm.
FromU8Gas(byte) ==
    IF byte \in Declared THEN {gas_cost(byte)} ELSE GasCostValues

ExecArms ==
    {STOP, ADD, MUL, SUB, DIV, MOD, LT, GT, EQ, ISZERO, AND, OR, XOR, NOT, POP,
     MLOAD, MSTORE, MSTORE8, SLOAD, SSTORE, JUMP, JUMPI, JUMPDEST, RETURN}

FromU8Arms(byte) ==
    IF byte \in Declared THEN {byte} ELSE {byte} \cup ExecArms

\* ------------------------------------------------------------------------
\* Memory (crate fairvm, evm/memory.rs).  data is the Vec<u8>: data_len is
\* its length and bytes maps the addresses (from 0) that hold a non-zero
\* byte to that byte; every other address below data_len holds 0.
\* ------------------------------------------------------------------------
\* Memory::new
MemoryNew == [data_len |-> 0, bytes |-> <<>>, size |-> 0]

Max2(x, y) == IF x >= y THEN x ELSE y

\* usize::div_ceil
div_ceil(x, d) == (x + d - 1) \div d

GMEMORY == 3

GMEMORY_QUADRATIC_DENOMINATOR == 512

\* data[addr]
MemByte(m, addr) == IF addr \in DOMAIN m.bytes THEN m.bytes[addr] ELSE 0

\* data[offset..offset + size].to_vec()
MemSlice(m, offset, size) == [i \in 1..size |-> MemByte(m, offset + i - 1)]

\* data[offset..offset + Len(value)].copy_from_slice(value)
MemWrite(m, offset, value) ==
    LET rng == offset..(offset + Len(value) - 1)
        nz  == {a \in rng : value[a - offset + 1] # 0}
        dom == (DOMAIN m.bytes \ rng) \cup nz
    IN  [m EXCEPT !.bytes =
            [a \in dom |-> IF a \in rng THEN value[a - offset + 1]
                           ELSE m.bytes[a]]]

\* expand with the logical size set to the end of the requested range
expand_SizeIsRequestEnd(m, offset, size) ==
    IF size = 0 THEN [mem |-> m, gas |-> 0]
    ELSE [mem |-> [m EXCEPT !.size = offset + size,
                            !.data_len = Max2(@, offset + size)],
          gas |-> 0]

\* expand that charges the whole cost of the new size, not the increase
expand_ChargesWholeCost(m, offset, size) ==
    IF size = 0 THEN [mem |-> m, gas |-> 0]
    ELSE LET new_size  == Max2(m.size, offset + size)
             new_words == div_ceil(new_size, 32)
         IN  [mem |-> [m EXCEPT !.size = new_size,
                                !.data_len = Max2(@, new_size)],
              gas |-> new_words * GMEMORY
                      + (new_words * new_words) \div GMEMORY_QUADRATIC_DENOMINATOR]

\* Memory::expand: the memory after the call and the gas it returns
expand(m, offset, size) ==
    IF size = 0 THEN [mem |-> m, gas |-> 0]
    ELSE LET old_size  == m.size
             new_size  == Max2(old_size, offset + size)
             m1        == [m EXCEPT !.size = new_size,
                                    !.data_len = Max2(@, new_size)]
             old_words == div_ceil(old_size, 32)
             new_words == div_ceil(new_size, 32)
             linear    == (new_words - old_words) * GMEMORY
             quadratic == (new_words * new_words) \div GMEMORY_QUADRATIC_DENOMINATOR
                          - (old_words * old_words) \div GMEMORY_QUADRATIC_DENOMINATOR
         IN  IF new_words <= old_words THEN [mem |-> m1, gas |-> 0]
             ELSE [mem |-> m1, gas |-> linear + quadratic]

\* Memory::store32
store32(m, offset, value) == MemWrite(expand(m, offset, 32).mem, offset, value)

\* Memory::load32
load32(m, offset) ==
    IF offset + 32 > m.data_len THEN U256Zero ELSE MemSlice(m, offset, 32)

\* Memory::store.  The slice data[offset..offset] of an empty value panics
\* when offset lies beyond the buffer.
store(m, offset, value) ==
    LET m1 == expand(m, offset, Len(value)).mem
    IN  IF offset + Len(value) > m1.data_len
        THEN [mem |-> m1, panic |-> TRUE]
        ELSE [mem |-> MemWrite(m1, offset, value), panic |-> FALSE]

\* Memory::load
load(m, offset, size) ==
    IF offset + size > m.data_len THEN Zeros(size) ELSE MemSlice(m, offset, size)

\* Memory::size
MemSize(m) == m.size

\* An offset is a usize, kept modulo 2^64: the residue 2^64 - k of a small k
\* is written -k, so that offset + size is the wrapped sum.
UsizeMax == -1

\* What load, and load32 with size 32, can answer; val is the answer when
\* offset + size is in the range of usize.  For an offset whose sum with
\* size leaves the range of usize, a build with overflow checks panics in
\* offset + size; a build without them carries on with the wrapped sum and
\* either answers zeros or panics in the slice data[offset..offset + size],
\* whose start lies beyond its end.
LoadOutcomes(m, offset, size, val) ==
    IF offset >= 0
    THEN {[out |-> val, panic |-> FALSE]}
    ELSE IF offset + size < 0
    THEN {[out |-> Zeros(size), panic |-> FALSE]}
    ELSE {[out |-> <<>>, panic |-> TRUE],
          IF offset + size > m.data_len
          THEN [out |-> Zeros(size), panic |-> FALSE]
          ELSE [out |-> <<>>, panic |-> TRUE]}

\* ------------------------------------------------------------------------
\* Executor (crate fairvm, evm/executor.rs)
\* ------------------------------------------------------------------------
\* Executor::new: the fields execute works on
ExecutorNew ==
    [stack |-> StackNew, memory |-> MemoryNew, pc |-> 0, gas_used |-> 0,
     return_data |-> <<>>]

\* Executor::analyze_jumpdests.  code[i] of the source is code[i + 1] here.
RECURSIVE AnalyzeFrom(_, _, _)
AnalyzeFrom(code, i, jumpdests) ==
    IF i >= Len(code) THEN jumpdests
    ELSE LET marked == IF code[i + 1] = JUMPDEST
                       THEN [jumpdests EXCEPT ![i + 1] = TRUE]
                       ELSE jumpdests
             skip   == IF code[i + 1] >= PUSH1 /\ code[i + 1] <= PUSH32
                       THEN code[i + 1] - PUSH1 + 1
                       ELSE 0
         IN  AnalyzeFrom(code, i + skip + 1, marked)

analyze_jumpdests(code) == AnalyzeFrom(code, 0, [i \in 1..Len(code) |-> FALSE])

\* use_gas that adds the amount before it tests the limit
use_gas_AddFirst(ex, amount, gas_limit) ==
    IF ex.gas_used + amount > gas_limit
    THEN [ex |-> [ex EXCEPT !.gas_used = @ + amount], err |-> Err("OutOfGas")]
    ELSE [ex |-> [ex EXCEPT !.gas_used = @ + amount], err |-> NoErr]

\* Executor::use_gas
use_gas(ex, amount, gas_limit) ==
    IF ex.gas_used + amount > gas_limit
    THEN [ex |-> ex, err |-> Err("OutOfGas")]
    ELSE [ex |-> [ex EXCEPT !.gas_used = @ + amount], err |-> NoErr]

\* From<StackError> for ExecutorError
StackErr(e) ==
    CASE e.kind = "Underflow" -> Err("Stack.Underflow")
      [] e.kind = "DepthLimitExceeded" -> Err("Stack.DepthLimitExceeded")
      [] e.kind = "InvalidIndex" -> ErrArg("Stack.InvalidIndex", e.arg)

\* what one call of execute_opcode leaves: the executor, and Ok(true)
\* ("continue"), Ok(false) ("halt"), Err(e) ("err") or a panic ("panic")
OkTrue(ex) == [ex |-> ex, tag |-> "continue", err |-> NoErr]

OkFalse(ex) == [ex |-> ex, tag |-> "halt", err |-> NoErr]

Fail(ex, e) == [ex |-> ex, tag |-> "err", err |-> e]

Panic(ex, msg) == [ex |-> ex, tag |-> "panic", err |-> Err(msg)]

WithStack(ex, s) == [ex EXCEPT !.stack = s]

\* let a = pop()?; let b = pop()?; push(f(a, b))?; Ok(true)
BinOp(ex, f(_, _)) ==
    LET p1 == pop(ex.stack)
    IN  IF p1.err # NoErr THEN Fail(ex, StackErr(p1.err))
        ELSE
    LET p2 == pop(p1.stack)
    IN  IF p2.err # NoErr THEN Fail(WithStack(ex, p1.stack), StackErr(p2.err))
        ELSE
    LET r == push(p2.stack, f(p1.val, p2.val))
    IN  IF r.err # NoErr THEN Fail(WithStack(ex, p2.stack), StackErr(r.err))
        ELSE OkTrue(WithStack(ex, r.stack))

\* let a = pop()?; push(f(a))?; Ok(true)
UnOp(ex, f(_)) ==
    LET p1 == pop(ex.stack)
    IN  IF p1.err # NoErr THEN Fail(ex, StackErr(p1.err))
        ELSE
    LET r == push(p1.stack, f(p1.val))
    IN  IF r.err # NoErr THEN Fail(WithStack(ex, p1.stack), StackErr(r.err))
        ELSE OkTrue(WithStack(ex, r.stack))

Bool256(b) == IF b THEN U256One ELSE U256Zero

OpAdd(a, b) == overflowing_add(a, b)

OpMul(a, b) == overflowing_mul(a, b)

OpSub(a, b) == overflowing_sub(a, b)

\* a DIV arm that answers the dividend for a zero divisor
OpDiv_ZeroKeepsDividend(a, b) == IF is_zero(b) THEN a ELSE U256Div(a, b)

OpDiv(a, b) == IF is_zero(b) THEN U256Zero ELSE U256Div(a, b)

OpMod(a, b) == IF is_zero(b) THEN U256Zero ELSE U256Rem(a, b)

OpLt(a, b) == Bool256(U256Lt(a, b))

OpGt(a, b) == Bool256(U256Lt(b, a))

OpEq(a, b) == Bool256(a = b)

OpIsZero(a) == Bool256(is_zero(a))

\* State::get_storage of the EvmContext impl: always H256::zero()
get_storage(state, address, key) == U256Zero

\* State::set_storage_value: the body is empty
set_storage_value(state, address, key, value) == state

CastPanic == "Integer overflow when casting to usize"

\* MLOAD arm
OpMload(ex, gas_limit) ==
    LET p1 == pop(ex.stack)
    IN  IF p1.err # NoErr THEN Fail(ex, StackErr(p1.err))
        ELSE IF ~FitsWord64(p1.val) THEN Panic(WithStack(ex, p1.stack), CastPanic)
        ELSE
    LET offset_usize == as_usize(p1.val)
        e  == expand(ex.memory, offset_usize, 32)
        e1 == [ex EXCEPT !.stack = p1.stack, !.memory = e.mem]
        g  == use_gas(e1, e.gas, gas_limit)
    IN  IF g.err # NoErr THEN Fail(g.ex, g.err)
        ELSE
    LET r == push(g.ex.stack, load32(g.ex.memory, offset_usize))
    IN  IF r.err # NoErr THEN Fail(g.ex, StackErr(r.err))
        ELSE OkTrue(WithStack(g.ex, r.stack))

\* MSTORE arm (wide = TRUE) and MSTORE8 arm (wide = FALSE)
OpMstore(ex, gas_limit, wide) ==
    LET p1 == pop(ex.stack)
    IN  IF p1.err # NoErr THEN Fail(ex, StackErr(p1.err))
        ELSE
    LET p2 == pop(p1.stack)
    IN  IF p2.err # NoErr THEN Fail(WithStack(ex, p1.stack), StackErr(p2.err))
        ELSE IF ~FitsWord64(p1.val) THEN Panic(WithStack(ex, p2.stack), CastPanic)
        ELSE
    LET offset_usize == as_usize(p1.val)
        e  == expand(ex.memory, offset_usize, IF wide THEN 32 ELSE 1)
        e1 == [ex EXCEPT !.stack = p2.stack, !.memory = e.mem]
        g  == use_gas(e1, e.gas, gas_limit)
    IN  IF g.err # NoErr THEN Fail(g.ex, g.err)
        ELSE IF wide
        THEN OkTrue([g.ex EXCEPT !.memory = store32(@, offset_usize, p2.val)])
        ELSE LET st == store(g.ex.memory, offset_usize, <<p2.val[WordLen]>>)
             IN  IF st.panic
                 THEN Panic([g.ex EXCEPT !.memory = st.mem], "slice index")
                 ELSE OkTrue([g.ex EXCEPT !.memory = st.mem])

\* SLOAD arm
OpSload(ex, state, address) ==
    LET p1 == pop(ex.stack)
    IN  IF p1.err # NoErr THEN Fail(ex, StackErr(p1.err))
        ELSE
    LET r == push(p1.stack, get_storage(state, address, p1.val))
    IN  IF r.err # NoErr THEN Fail(WithStack(ex, p1.stack), StackErr(r.err))
        ELSE OkTrue(WithStack(ex, r.stack))

\* SSTORE arm: the executor part; the write is set_storage_value
OpSstore(ex) ==
    LET p1 == pop(ex.stack)
    IN  IF p1.err # NoErr THEN Fail(ex, StackErr(p1.err))
        ELSE
    LET p2 == pop(p1.stack)
    IN  IF p2.err # NoErr THEN Fail(WithStack(ex, p1.stack), StackErr(p2.err))
        ELSE OkTrue(WithStack(ex, p2.stack))

\* the jump both JUMP and a taken JUMPI make, dest already popped
JumpTo(ex, dest, code, jumpdests) ==
    IF ~FitsWord64(dest) THEN Panic(ex, CastPanic)
    ELSE LET dest_usize == as_usize(dest)
         IN  IF dest_usize >= Len(code) \/ ~jumpdests[dest_usize + 1]
             THEN Fail(ex, Err("InvalidJumpdest"))
             ELSE OkFalse([ex EXCEPT !.pc = dest_usize])

\* JUMP arm
OpJump(ex, code, jumpdests) ==
    LET p1 == pop(ex.stack)
    IN  IF p1.err # NoErr THEN Fail(ex, StackErr(p1.err))
        ELSE JumpTo(WithStack(ex, p1.stack), p1.val, code, jumpdests)

\* JUMPI arm
OpJumpi(ex, code, jumpdests) ==
    LET p1 == pop(ex.stack)
    IN  IF p1.err # NoErr THEN Fail(ex, StackErr(p1.err))
        ELSE
    LET p2 == pop(p1.stack)
    IN  IF p2.err # NoErr THEN Fail(WithStack(ex, p1.stack), StackErr(p2.err))
        ELSE IF ~is_zero(p2.val)
        THEN JumpTo(WithStack(ex, p2.stack), p1.val, code, jumpdests)
        ELSE OkTrue(WithStack(ex, p2.stack))

\* PUSH1-PUSH32 arm: the n bytes after the opcode, big-endian
OpPush(ex, op, code) ==
    LET n == op - PUSH1 + 1
    IN  IF ex.pc + n >= Len(code) THEN Fail(ex, Err("Stopped"))
        ELSE
    LET value == Zeros(WordLen - n) \o SubSeq(code, ex.pc + 2, ex.pc + 1 + n)
        r     == push(ex.stack, value)
    IN  IF r.err # NoErr THEN Fail(ex, StackErr(r.err))
        ELSE OkTrue([ex EXCEPT !.stack = r.stack, !.pc = @ + n])

\* DUP1-DUP16 arm
OpDup(ex, op) ==
    LET r == dup(ex.stack, op - DUP1)
    IN  IF r.err # NoErr THEN Fail(ex, StackErr(r.err))
        ELSE OkTrue(WithStack(ex, r.stack))

\* SWAP1-SWAP16 arm
OpSwap(ex, op) ==
    LET r == swap(ex.stack, op - SWAP1 + 1)
    IN  IF r.err # NoErr THEN Fail(ex, StackErr(r.err))
        ELSE OkTrue(WithStack(ex, r.stack))

\* POP arm
OpPop(ex) ==
    LET p1 == pop(ex.stack)
    IN  IF p1.err # NoErr THEN Fail(ex, StackErr(p1.err))
        ELSE OkTrue(WithStack(ex, p1.stack))

\* RETURN arm
OpReturn(ex, gas_limit) ==
    LET p1 == pop(ex.stack)
    IN  IF p1.err # NoErr THEN Fail(ex, StackErr(p1.err))
        ELSE
    LET p2 == pop(p1.stack)
    IN  IF p2.err # NoErr THEN Fail(WithStack(ex, p1.stack), StackErr(p2.err))
        ELSE IF ~FitsWord64(p1.val) \/ ~FitsWord64(p2.val)
        THEN Panic(WithStack(ex, p2.stack), CastPanic)
        ELSE
    LET offset_usize == as_usize(p1.val)
        size_usize   == as_usize(p2.val)
        e  == expand(ex.memory, offset_usize, size_usize)
        e1 == [ex EXCEPT !.stack = p2.stack, !.memory = e.mem]
        g  == use_gas(e1, e.gas, gas_limit)
    IN  IF g.err # NoErr THEN Fail(g.ex, g.err)
        ELSE OkFalse([g.ex EXCEPT
                        !.return_data = load(g.ex.memory, offset_usize, size_usize)])

\* the match of execute_opcode, entered with the base gas already charged.
\* op is the opcode whose arm is taken, opcode the byte fetched.
ExecArm(ex, op, opcode, code, jumpdests, gas_limit, state, address) ==
    CASE op = STOP     -> OkFalse(ex)
      [] op = ADD      -> BinOp(ex, OpAdd)
      [] op = MUL      -> BinOp(ex, OpMul)
      [] op = SUB      -> BinOp(ex, OpSub)
      [] op = DIV      -> BinOp(ex, OpDiv)
      [] op = MOD      -> BinOp(ex, OpMod)
      [] op = LT       -> BinOp(ex, OpLt)
      [] op = GT       -> BinOp(ex, OpGt)
      [] op = EQ       -> BinOp(ex, OpEq)
      [] op = ISZERO   -> UnOp(ex, OpIsZero)
      [] op = AND      -> BinOp(ex, bitand)
      [] op = OR       -> BinOp(ex, bitor)
      [] op = XOR      -> BinOp(ex, bitxor)
      [] op = NOT      -> UnOp(ex, bitnot)
      [] op = POP      -> OpPop(ex)
      [] op = MLOAD    -> OpMload(ex, gas_limit)
      [] op = MSTORE   -> OpMstore(ex, gas_limit, TRUE)
      [] op = MSTORE8  -> OpMstore(ex, gas_limit, FALSE)
      [] op = SLOAD    -> OpSload(ex, state, address)
      [] op = SSTORE   -> OpSstore(ex)
      [] op = JUMP     -> OpJump(ex, code, jumpdests)
      [] op = JUMPI    -> OpJumpi(ex, code, jumpdests)
      [] op = JUMPDEST -> OkTrue(ex)
      [] op >= PUSH1 /\ op <= PUSH32 -> OpPush(ex, op, code)
      [] op >= DUP1 /\ op <= DUP16   -> OpDup(ex, op)
      [] op >= SWAP1 /\ op <= SWAP16 -> OpSwap(ex, op)
      [] op = RETURN   -> OpReturn(ex, gas_limit)
      [] OTHER         -> Fail(ex, ErrArg("InvalidOpcode", opcode))

\* Executor::execute_opcode.  from_u8 never answers None, so the ok_or
\* error is never taken; cost is what op.gas_cost() answered and op the arm
\* the match takes (both fixed by opcode when it is a declared opcode).
execute_opcode(ex, opcode, cost, op, code, jumpdests, gas_limit, state, address) ==
    LET g == use_gas(ex, cost, gas_limit)
    IN  IF g.err # NoErr THEN Fail(g.ex, g.err)
        ELSE ExecArm(g.ex, op, opcode, code, jumpdests, gas_limit, state, address)

\* ------------------------------------------------------------------------
\* Executor (crate fair-vm-core, vm/executor.rs).  Its Stack and Memory are
\* the ones above with a fairness_weight counter added, which no result of
\* a call depends on; the fairness_score the executor sums from
\* Opcode::fairness_weight is left out with it.
\* ------------------------------------------------------------------------
\* The opcode table of this crate (vm/opcodes.rs) is not among the sources.
\* from_u8 answers Some for the bytes of the table and None for any other
\* byte; the table holds the opcodes of crate fairvm with the PUSH, DUP and
\* SWAP ranges complete, and gas_cost is the cost table of crate fairvm.
CoreOpcodes ==
    Declared \cup (PUSH1..PUSH32) \cup (DUP1..DUP16) \cup (SWAP1..SWAP16)

core_from_u8(byte) == byte \in CoreOpcodes

core_gas_cost(op) == gas_cost(op)

\* State::new: no Storage attached (storage = FALSE); State::set_storage
\* attaches one, whose slots map a key to the value last written under it
CoreStateNew == [storage |-> FALSE, slots |-> <<>>]

\* a Storage that holds 2 under key 1
CoreStateAttached ==
    [storage |-> TRUE, slots |-> [k \in {U256One} |-> U256From(2)]]

\* State::set_storage_value behind EvmContext::set_storage
core_set_storage_value(st, address, key, value) ==
    IF st.storage
    THEN [st EXCEPT !.slots = [k \in DOMAIN st.slots \cup {key} |->
                                  IF k = key THEN value ELSE st.slots[k]]]
    ELSE st

\* State::get_storage_value behind EvmContext::get_storage
core_get_storage_value(st, address, key) ==
    IF st.storage /\ key \in DOMAIN st.slots THEN st.slots[key] ELSE U256Zero

\* what one call of execute_opcode leaves, with the State it leaves
WithState(r, st) == [ex |-> r.ex, tag |-> r.tag, err |-> r.err, state |-> st]

\* BYTE arm: f(i, x)
CoreByte(i, x) ==
    IF ~U256Lt(i, U256From(32)) THEN U256Zero
    ELSE U256From(x[as_usize(i) + 1])

\* PC, MSIZE and GAS arms: push(U256::from(n))
CorePushNat(ex, n) ==
    LET r == push(ex.stack, U256From(n))
    IN  IF r.err # NoErr THEN Fail(ex, StackErr(r.err))
        ELSE OkTrue(WithStack(ex, r.stack))

\* MLOAD arm: no expansion, no memory gas
CoreMload(ex) ==
    LET p1 == pop(ex.stack)
    IN  IF p1.err # NoErr THEN Fail(ex, StackErr(p1.err))
        ELSE IF ~FitsWord64(p1.val) THEN Panic(WithStack(ex, p1.stack), CastPanic)
        ELSE
    LET r == push(p1.stack, load32(ex.memory, as_usize(p1.val)))
    IN  IF r.err # NoErr THEN Fail(WithStack(ex, p1.stack), StackErr(r.err))
        ELSE OkTrue(WithStack(ex, r.stack))

\* MSTORE arm: store32 expands the memory, no memory gas is charged
CoreMstore(ex) ==
    LET p1 == pop(ex.stack)
    IN  IF p1.err # NoErr THEN Fail(ex, StackErr(p1.err))
        ELSE
    LET p2 == pop(p1.stack)
    IN  IF p2.err # NoErr THEN Fail(WithStack(ex, p1.stack), StackErr(p2.err))
        ELSE IF ~FitsWord64(p1.val) THEN Panic(WithStack(ex, p2.stack), CastPanic)
        ELSE OkTrue([ex EXCEPT !.stack = p2.stack,
                               !.memory = store32(@, as_usize(p1.val), p2.val)])

\* SLOAD arm
CoreSload(ex, st, address) ==
    LET p1 == pop(ex.stack)
    IN  IF p1.err # NoErr THEN Fail(ex, StackErr(p1.err))
        ELSE
    LET r == push(p1.stack, core_get_storage_value(st, address, p1.val))
    IN  IF r.err # NoErr THEN Fail(WithStack(ex, p1.stack), StackErr(r.err))
        ELSE OkTrue(WithStack(ex, r.stack))

\* the SSTORE arm past its is_static test: pop key, pop value, write
CoreSstoreWrite(ex, st, address) ==
    LET p1 == pop(ex.stack)
    IN  IF p1.err # NoErr THEN WithState(Fail(ex, StackErr(p1.err)), st)
        ELSE
    LET p2 == pop(p1.stack)
    IN  IF p2.err # NoErr
        THEN WithState(Fail(WithStack(ex, p1.stack), StackErr(p2.err)), st)
        ELSE WithState(OkTrue(WithStack(ex, p2.stack)),
                       core_set_storage_value(st, address, p1.val, p2.val))

\* an SSTORE arm that does not look at is_static
CoreSstore_NoStaticTest(ex, is_static, st, address) ==
    CoreSstoreWrite(ex, st, address)

\* SSTORE arm.  The error is ExecutorError::State with the message that a
\* static call may not modify storage.
CoreSstore(ex, is_static, st, address) ==
    IF is_static THEN WithState(Fail(ex, Err("State")), st)
    ELSE CoreSstoreWrite(ex, st, address)

\* RETURN and REVERT arms: no expansion, no memory gas
CoreReturn(ex) ==
    LET p1 == pop(ex.stack)
    IN  IF p1.err # NoErr THEN Fail(ex, StackErr(p1.err))
        ELSE
    LET p2 == pop(p1.stack)
    IN  IF p2.err # NoErr THEN Fail(WithStack(ex, p1.stack), StackErr(p2.err))
        ELSE IF ~FitsWord64(p1.val) \/ ~FitsWord64(p2.val)
        THEN Panic(WithStack(ex, p2.stack), CastPanic)
        ELSE OkFalse([ex EXCEPT !.stack = p2.stack,
                        !.return_data = load(ex.memory, as_usize(p1.val),
                                             as_usize(p2.val))])

\* the match of execute_opcode, entered with the base gas already charged
CoreArm(ex, op, code, jumpdests, context, st) ==
    CASE op = STOP     -> WithState(OkFalse(ex), st)
      [] op = ADD      -> WithState(BinOp(ex, OpAdd), st)
      [] op = MUL      -> WithState(BinOp(ex, OpMul), st)
      [] op = SUB      -> WithState(BinOp(ex, OpSub), st)
      [] op = DIV      -> WithState(BinOp(ex, OpDiv), st)
      [] op = MOD      -> WithState(BinOp(ex, OpMod), st)
      [] op = LT       -> WithState(BinOp(ex, OpLt), st)
      [] op = GT       -> WithState(BinOp(ex, OpGt), st)
      [] op = EQ       -> WithState(BinOp(ex, OpEq), st)
      [] op = ISZERO   -> WithState(UnOp(ex, OpIsZero), st)
      [] op = AND      -> WithState(BinOp(ex, bitand), st)
      [] op = OR       -> WithState(BinOp(ex, bitor), st)
      [] op = XOR      -> WithState(BinOp(ex, bitxor), st)
      [] op = NOT      -> WithState(UnOp(ex, bitnot), st)
      [] op = BYTE     -> WithState(BinOp(ex, CoreByte), st)
      [] op = POP      -> WithState(OpPop(ex), st)
      [] op = MLOAD    -> WithState(CoreMload(ex), st)
      [] op = MSTORE   -> WithState(CoreMstore(ex), st)
      [] op = SLOAD    -> WithState(CoreSload(ex, st, context.address), st)
      [] op = SSTORE   -> CoreSstore(ex, context.is_static, st, context.address)
      [] op = JUMP     -> WithState(OpJump(ex, code, jumpdests), st)
      [] op = JUMPI    -> WithState(OpJumpi(ex, code, jumpdests), st)
      [] op = PC       -> WithState(CorePushNat(ex, ex.pc), st)
      [] op = MSIZE    -> WithState(CorePushNat(ex, MemSize(ex.memory)), st)
      [] op = GAS      ->
           WithState(CorePushNat(ex, context.gas_limit - ex.gas_used), st)
      [] op = JUMPDEST -> WithState(OkTrue(ex), st)
      [] op = RETURN   -> WithState(CoreReturn(ex), st)
      [] op = REVERT   -> WithState(CoreReturn(ex), st)
      [] OTHER         -> WithState(Fail(ex, ErrArg("InvalidOpcode", op)), st)

\* Executor::execute_opcode
core_execute_opcode(ex, opcode, code, jumpdests, context, st) ==
    IF ~core_from_u8(opcode)
    THEN WithState(Fail(ex, ErrArg("InvalidOpcode", opcode)), st)
    ELSE LET g == use_gas(ex, core_gas_cost(opcode), context.gas_limit)
         IN  IF g.err # NoErr THEN WithState(Fail(g.ex, g.err), st)
             ELSE CoreArm(g.ex, opcode, code, jumpdests, context, st)

\* ------------------------------------------------------------------------
\* State of one Executor run and of one Stack under test
\* ------------------------------------------------------------------------
VARIABLES
    code,        \* the bytecode handed to execute
    jumpdests,   \* analyze_jumpdests(code), computed before the loop
    ctx,         \* ExecutionContext: gas_limit, is_static
    ex,          \* Executor fields: stack, memory, pc, gas_used, return_data
    state,       \* the storage behind Arc<RwLock<State>>
    state0,      \* what state was when execute was called
    status,      \* "idle", "running", "returned" or "panicked"
    result,      \* the ExecutionResult once status = "returned"
    last,        \* the last loop iteration: executor before it and its outcome
    stk,         \* a Stack driven through its own API
    stkLast,     \* the last Stack call: name, arguments, stack before, Result
    mem,         \* a Memory driven through its own API
    memLast,     \* the last Memory call: name, arguments, memory before, result
    memHist,     \* over the Memory calls so far: how many changed the memory,
                 \* the sum of the costs expand returned, the addresses written
    pre,         \* the last precompile call: contract, arguments, Result
    dep,         \* deploy_contract: the State behind the Evm, the call, its Result
    bal,         \* a State of fair-vm-core: accounts, lock poison, the last call
    again,       \* execute calls on one Executor: how many, the Executor at the last
    conc,        \* tasks on a shared State of fair-vm: the account, each task's step
    xfer,        \* transfer on a State of fairvm: the State, the last call
    life         \* a FairVM and a BasicConsensus: their fields, the last call

vars ==
    <<code, jumpdests, ctx, ex, state, state0, status, result, last, stk, stkLast,
      mem, memLast, memHist, pre, dep, bal,
      again, conc, xfer, life>>

execVars == <<code, jumpdests, ctx, ex, state, state0, status, result, last>>

stackVars == <<stk, stkLast>>

memVars == <<mem, memLast, memHist>>

\* the variables of the components driven on their own
\* the variables of the components specified after the precompiles
lateVars == <<dep, bal, again, conc, xfer, life>>

unitVars == <<stk, stkLast, mem, memLast, memHist, pre, lateVars>>

\* what a deployment leaves alone besides the run
restDep == <<stk, stkLast, mem, memLast, memHist, pre, bal, again, conc, xfer, life>>

\* the late components but the State of fair-vm-core
restBal == <<dep, again, conc, xfer, life>>

\* the late components but the record of execute calls
restAgain == <<dep, bal, conc, xfer, life>>

\* the late components but the tasks on a shared State
restConc == <<dep, bal, again, xfer, life>>

\* the late components but the State of the transfers
restXfer == <<dep, bal, again, conc, life>>

\* the late components but the FairVM and the engine
restLife == <<dep, bal, again, conc, xfer>>

NoResult == [success |-> FALSE, gas_used |-> 0, return_data |-> <<>>, error |-> NoErr]

NoLast ==
    [acted |-> FALSE, before |-> ExecutorNew, opcode |-> 0, cost |-> 0,
     tag |-> "none", err |-> NoErr]

NoStkLast ==
    [call |-> "none", index |-> 0, before |-> StackNew, err |-> NoErr,
     val |-> U256Zero]

NoMemLast ==
    [call |-> "none", offset |-> 0, size |-> 0, before |-> MemoryNew,
     gas |-> 0, out |-> <<>>, panic |-> FALSE]

NoMemHist == [calls |-> 0, total |-> 0, written |-> {}]

NoPre ==
    [contract |-> "none", input |-> <<>>, gas_limit |-> 0, ok |-> FALSE,
     output |-> <<>>, gas |-> 0, err |-> "none"]

\* no call has been made on the Stack, the Memory, a precompile
IdleStack == stk = StackNew /\ stkLast = NoStkLast

IdleMem == mem = MemoryNew /\ memLast = NoMemLast /\ memHist = NoMemHist

IdlePre == pre = NoPre

\* ------------------------------------------------------------------------
\* Accounts, MemoryStorage and State (crate fairvm)
\* ------------------------------------------------------------------------
\* Address: 20 bytes, every byte b
AddressOf(b) == Bytes([i \in 1..20 |-> b])

H256Zero == U256Zero

\* Account::new
AccountNew(address) ==
    [address |-> address, balance |-> U256Zero, nonce |-> 0,
     code_hash |-> H256Zero, storage_root |-> H256Zero]

\* MemoryStorage::new: no accounts
MemoryStorageNew == <<>>

\* MemoryStorage::get_account: Option<Account> as a sequence of length <= 1
MemoryStorage_get_account(accounts, address) ==
    IF address \in DOMAIN accounts THEN <<accounts[address]>> ELSE <<>>

\* MemoryStorage::set_account: HashMap::insert under account.address
MemoryStorage_set_account(accounts, account) ==
    [a \in DOMAIN accounts \cup {account.address} |->
        IF a = account.address THEN account ELSE accounts[a]]

\* MemoryStorage::get_balance
MemoryStorage_get_balance(accounts, address) ==
    IF address \in DOMAIN accounts THEN accounts[address].balance ELSE U256Zero

\* MemoryStorage::set_balance: only an account that exists is changed
MemoryStorage_set_balance(accounts, address, balance) ==
    IF address \in DOMAIN accounts
    THEN [accounts EXCEPT ![address].balance = balance]
    ELSE accounts

\* State::new(storage): storage says whether a backend is attached, accounts
\* is the MemoryStorage behind it
StateNew(storage, accounts) == [storage |-> storage, accounts |-> accounts]

\* State::get_account
get_account(st, address) ==
    IF st.storage THEN MemoryStorage_get_account(st.accounts, address) ELSE <<>>

\* State::set_account: Err when no backend is attached
set_account(st, account) ==
    IF st.storage
    THEN [st |-> [st EXCEPT !.accounts =
                     MemoryStorage_set_account(st.accounts, account)],
          ok |-> TRUE]
    ELSE [st |-> st, ok |-> FALSE]

\* State::get_balance
get_balance(st, address) ==
    IF st.storage THEN MemoryStorage_get_balance(st.accounts, address)
    ELSE U256Zero

\* State::set_balance: Err when no backend is attached
set_balance(st, address, balance) ==
    IF st.storage
    THEN [st |-> [st EXCEPT !.accounts =
                     MemoryStorage_set_balance(st.accounts, address, balance)],
          ok |-> TRUE]
    ELSE [st |-> st, ok |-> FALSE]

\* no deploy_contract call has been made
NoDep ==
    [phase |-> "idle", count |-> 0, st |-> StateNew(FALSE, MemoryStorageNew),
     st0 |-> StateNew(FALSE, MemoryStorageNew), rt |-> FALSE,
     caller |-> AddressOf(0), value |-> U256Zero, address |-> AddressOf(0),
     ret |-> "none", err |-> NoErr]

IdleDep == dep = NoDep

\* ------------------------------------------------------------------------
\* State over Arc<RwLock<HashMap<Address, Account>>> (fair-vm-core,
\* src/state.rs)
\* ------------------------------------------------------------------------
\* Account::new: balance and nonce (code and storage play no part here)
CoreAccountNew == [balance |-> U256Zero, nonce |-> 0]

\* State::new: no accounts, the lock not poisoned
CoreStoreNew == [accounts |-> <<>>, poisoned |-> FALSE]

\* State::get_account: the account under address, or a default one
core_get_account(s, address) ==
    IF address \in DOMAIN s.accounts THEN s.accounts[address]
    ELSE CoreAccountNew

\* accounts.entry(address).or_default() of State::update_account
entry_or_default(accounts, address) ==
    [a \in DOMAIN accounts \cup {address} |->
        IF a \in DOMAIN accounts THEN accounts[a] ELSE CoreAccountNew]

CoreCallOk(s, val) == [s |-> s, ret |-> "ok", val |-> val]

\* a panic of the call: with poison set it happened under the write guard
CoreCallPanic(s, poison) ==
    [s |-> [s EXCEPT !.poisoned = @ \/ poison], ret |-> "panic",
     val |-> U256Zero]

\* State::get_balance: read().unwrap() panics on a poisoned lock
core_get_balance(s, address) ==
    IF s.poisoned THEN CoreCallPanic(s, FALSE)
    ELSE CoreCallOk(s, core_get_account(s, address).balance)

\* State::add_balance: account.balance += amount under the write guard;
\* U256 += panics when the sum does not fit 256 bits
core_add_balance(s, address, amount) ==
    IF s.poisoned THEN CoreCallPanic(s, FALSE)
    ELSE LET accounts == entry_or_default(s.accounts, address)
             balance == accounts[address].balance
             sum == overflowing_add(balance, amount)
         IN  IF U256Lt(sum, balance)
             THEN CoreCallPanic([s EXCEPT !.accounts = accounts], TRUE)
             ELSE CoreCallOk([s EXCEPT !.accounts =
                                 [accounts EXCEPT ![address].balance = sum]],
                             U256Zero)

\* State::sub_balance: account.balance -= amount under the write guard;
\* U256 -= panics when amount exceeds the balance
core_sub_balance(s, address, amount) ==
    IF s.poisoned THEN CoreCallPanic(s, FALSE)
    ELSE LET accounts == entry_or_default(s.accounts, address)
             balance == accounts[address].balance
         IN  IF U256Lt(balance, amount)
             THEN CoreCallPanic([s EXCEPT !.accounts = accounts], TRUE)
             ELSE CoreCallOk([s EXCEPT !.accounts =
                                 [accounts EXCEPT ![address].balance =
                                     overflowing_sub(balance, amount)]],
                             U256Zero)

\* State::increment_nonce
core_increment_nonce(s, address) ==
    IF s.poisoned THEN CoreCallPanic(s, FALSE)
    ELSE LET accounts == entry_or_default(s.accounts, address)
         IN  CoreCallOk([s EXCEPT !.accounts =
                            [accounts EXCEPT ![address].nonce = @ + 1]],
                        U256Zero)

NoBal ==
    [s |-> CoreStoreNew, calls |-> 0,
     last |-> [call |-> "none", address |-> AddressOf(0),
               amount |-> U256Zero, before |-> CoreStoreNew, ret |-> "none",
               val |-> U256Zero]]

\* no call has been made on the State
IdleBal == bal = NoBal

NoAgain == [count |-> 0, start |-> ExecutorNew]

\* no execute call has been recorded
IdleAgain == again = NoAgain

NoTask == [pc |-> "idle", op |-> "none", amount |-> 0, local |-> 0, ret |-> "none"]

\* a State of crate fair-vm shared by tasks: the account under one address
\* in its MemoryStorage (exists, balance, nonce), the tasks, and the sums of
\* what the calls that returned Ok added, subtracted and incremented
NoConc ==
    [started |-> FALSE, exists |-> FALSE, balance |-> 0, nonce |-> 0,
     balance0 |-> 0, tasks |-> <<>>, added |-> 0, subtracted |-> 0,
     increments |-> 0]

\* no task has been spawned
IdleConc == conc = NoConc

NoXfer ==
    [started |-> FALSE, calls |-> 0, st |-> StateNew(FALSE, MemoryStorageNew),
     before |-> StateNew(FALSE, MemoryStorageNew), from |-> AddressOf(0),
     to |-> AddressOf(0), value |-> U256Zero, ret |-> "none"]

\* no transfer has been made
IdleXfer == xfer = NoXfer

\* ------------------------------------------------------------------------
\* BasicConsensus and FairVM (crate fairvm, consensus/basic.rs and lib.rs)
\* ------------------------------------------------------------------------
\* BasicConsensus::new: state is None (FALSE), Some(..) is TRUE
BasicConsensusNew == [state |-> FALSE]

ConsensusOk(c) == [c |-> c, err |-> "none"]

ConsensusErr(c, err) == [c |-> c, err |-> err]

\* BasicConsensus::initialize
Consensus_initialize(c) ==
    IF c.state THEN ConsensusErr(c, "AlreadyStarted")
    ELSE ConsensusOk([c EXCEPT !.state = TRUE])

\* BasicConsensus::start
Consensus_start(c) ==
    IF ~c.state THEN ConsensusErr(c, "NotInitialized") ELSE ConsensusOk(c)

\* BasicConsensus::stop: state = None
Consensus_stop(c) ==
    IF ~c.state THEN ConsensusErr(c, "AlreadyStopped")
    ELSE ConsensusOk([c EXCEPT !.state = FALSE])

\* BasicConsensus::get_consensus_state
Consensus_get_consensus_state(c) ==
    IF ~c.state THEN ConsensusErr(c, "NotInitialized") ELSE ConsensusOk(c)

\* FairVM::new: not running, no consensus engine (Option as a sequence)
FairVMNew == [is_running |-> FALSE, consensus |-> <<>>]

FairVMOk(vm) == [vm |-> vm, err |-> "none"]

FairVMErr(vm, err) == [vm |-> vm, err |-> err]

\* FairVM::set_consensus
FairVM_set_consensus(vm, consensus) ==
    IF vm.is_running THEN FairVMErr(vm, "Other")
    ELSE LET r == Consensus_initialize(consensus)
         IN  IF r.err # "none" THEN FairVMErr(vm, r.err)
             ELSE FairVMOk([vm EXCEPT !.consensus = <<r.c>>])

\* FairVM::start.  start_event_handling subscribes to the event channel
\* before the consensus event is sent, so publish_event finds a receiver.
FairVM_start(vm) ==
    IF vm.is_running THEN FairVMErr(vm, "Other")
    ELSE IF vm.consensus = <<>> THEN FairVMOk([vm EXCEPT !.is_running = TRUE])
    ELSE LET r == Consensus_start(vm.consensus[1])
         IN  IF r.err # "none" THEN FairVMErr(vm, r.err)
             ELSE FairVMOk([vm EXCEPT !.consensus = <<r.c>>,
                                      !.is_running = TRUE])

\* FairVM::stop
FairVM_stop(vm) ==
    IF ~vm.is_running THEN FairVMErr(vm, "Other")
    ELSE IF vm.consensus = <<>> THEN FairVMOk([vm EXCEPT !.is_running = FALSE])
    ELSE LET r == Consensus_stop(vm.consensus[1])
         IN  IF r.err # "none" THEN FairVMErr(vm, r.err)
             ELSE FairVMOk([vm EXCEPT !.consensus = <<r.c>>,
                                      !.is_running = FALSE])

\* a FairVM, a BasicConsensus driven on its own, and the calls made so far:
\* their number, the last one, the receiver before it and its error;
\* initialized and started say what has succeeded on the engine
NoLife ==
    [vm |-> FairVMNew, engine |-> BasicConsensusNew, calls |-> 0,
     call |-> "none", err |-> "none", vm0 |-> FairVMNew,
     engine0 |-> BasicConsensusNew, initialized |-> FALSE,
     started |-> FALSE, started0 |-> FALSE]

\* no call has been made on the FairVM or the engine
IdleLife == life = NoLife

\* the components specified further down are idle
IdleOthers ==
    IdleDep /\ IdleBal /\ IdleAgain /\ IdleConc /\ IdleXfer /\ IdleLife

\* ------------------------------------------------------------------------
\* Inputs: programs and gas limits
\* ------------------------------------------------------------------------
Push1(b) == <<PUSH1, b>>

Push32Max == <<PUSH32>> \o U256Max

\* a byte enum Opcode does not declare
UndeclaredByte == 12

\* the instructions the enumerated programs are built from
Instrs ==
    {Push1(0), Push1(1), Push1(JUMPDEST), Push32Max,
     <<ADD>>, <<MUL>>, <<SUB>>, <<MSTORE>>, <<JUMP>>, <<JUMPI>>, <<JUMPDEST>>,
     <<RETURN>>, <<STOP>>}

RECURSIVE ProgramsUpTo(_)
ProgramsUpTo(n) ==
    IF n = 0 THEN {<<>>}
    ELSE LET shorter == ProgramsUpTo(n - 1)
         IN  shorter \cup {p \o i : p \in shorter, i \in Instrs}

\* tests::test_jumps
TestJumps == <<PUSH1, 1, PUSH1, 5, JUMPI, PUSH1, 0, JUMPDEST, PUSH1, 1>>

\* tests::test_basic_arithmetic
TestBasicArithmetic == <<PUSH1, 3, PUSH1, 5, ADD, PUSH1, 0, PUSH1, 32, RETURN>>

\* tests::test_memory_operations
TestMemoryOperations == <<PUSH1, 42, PUSH1, 0, MSTORE, PUSH1, 0, MLOAD>>

\* a forward JUMP, resp. a taken JUMPI, over one instruction to a JUMPDEST
JumpForward == <<PUSH1, 4, JUMP, STOP, JUMPDEST, PUSH1, 1>>

JumpiForward == <<PUSH1, 1, PUSH1, 7, JUMPI, PUSH1, 0, JUMPDEST, PUSH1, 1>>

\* PUSH opcodes with fewer operand bytes left than they take
TruncatedPush == {<<PUSH1>>, <<PUSH1, 1, PUSH2, 0>>, <<PUSH32, 255, 255>>}

\* an undeclared byte first, after one push and after two pushes
UndeclaredPrograms ==
    {<<UndeclaredByte>>, <<PUSH1, 1, UndeclaredByte, STOP>>,
     <<PUSH1, 0, PUSH1, 1, UndeclaredByte, STOP>>}

\* DIV and MOD over every pair of these operands (the second pushed is a)
DivOperands == {Push1(0), Push1(1), Push1(6), Push1(JUMPDEST), Push32Max}

DivPrograms ==
    {pb \o pa \o <<op>> : pa \in DivOperands, pb \in DivOperands,
                           op \in {DIV, MOD}}

\* write 7 under key 1 (SSTORE pops the key, then the value) and load key 1
StorageRoundTrip == <<PUSH1, 7, PUSH1, 1, SSTORE, PUSH1, 1, SLOAD>>

ExplicitPrograms ==
    {TestJumps, TestBasicArithmetic, TestMemoryOperations, JumpForward,
     JumpiForward, StorageRoundTrip}
        \cup TruncatedPush \cup UndeclaredPrograms \cup DivPrograms

Programs == ProgramsUpTo(MaxInstrs) \cup ExplicitPrograms

TestGasLimit == 100000

\* gas limits: too small for one PUSH, too small for PUSH PUSH MSTORE with
\* its memory expansion, and the limit the tests use
GasLimits == {2, 10, TestGasLimit}

\* ------------------------------------------------------------------------
\* Executor::execute (crate fairvm)
\* ------------------------------------------------------------------------
ContractAddress == 0

ResultOk(e) ==
    [success |-> TRUE, gas_used |-> e.gas_used, return_data |-> e.return_data,
     error |-> NoErr]

ResultErr(e, err) ==
    [success |-> FALSE, gas_used |-> e.gas_used, return_data |-> <<>>,
     error |-> err]

\* no execute call has been made yet
IdleExec ==
    /\ code = <<>>
    /\ jumpdests = <<>>
    /\ ctx = [gas_limit |-> 0, is_static |-> FALSE]
    /\ ex = ExecutorNew
    /\ state = <<>>
    /\ state0 = <<>>
    /\ status = "idle"
    /\ result = NoResult
    /\ last = NoLast

\* Evm::execute: Executor::new(context, state), then execute(code) up to its
\* loop: the jump destinations of code are analysed
ExecStartOver(programs) ==
    /\ status = "idle"
    /\ code' \in programs
    /\ jumpdests' = analyze_jumpdests(code')
    /\ ctx' \in [gas_limit : GasLimits, is_static : {FALSE}]
    /\ ex' = ExecutorNew
    /\ status' = "running"
    /\ UNCHANGED <<state, state0, result, last, unitVars>>

ExecStart == ExecStartOver(Programs)

\* the programs of the termination runs
LivePrograms ==
    ProgramsUpTo(MaxLiveInstrs)
        \cup (ExplicitPrograms \ (UndeclaredPrograms \cup DivPrograms))
        \cup {<<UndeclaredByte>>}

ExecStartLive == ExecStartOver(LivePrograms)

\* one iteration of the while loop: fetch code[pc], execute_opcode, then
\* pc += 1, break, or return the failure
ExecLoop ==
    /\ status = "running"
    /\ ex.pc < Len(code)
    /\ LET opcode == code[ex.pc + 1]
       IN  \E cost \in FromU8Gas(opcode), op \in FromU8Arms(opcode) :
             LET r == execute_opcode(ex, opcode, cost, op, code, jumpdests,
                                     ctx.gas_limit, state, ContractAddress)
             IN  /\ last' = [acted |-> TRUE, before |-> ex, opcode |-> opcode,
                             cost |-> cost, tag |-> r.tag, err |-> r.err]
                 /\ state' = IF r.tag = "continue" /\ op = SSTORE
                             THEN set_storage_value(state, ContractAddress,
                                    ex.stack.items[Len(ex.stack.items)],
                                    ex.stack.items[Len(ex.stack.items) - 1])
                             ELSE state
                 /\ CASE r.tag = "continue" ->
                           /\ ex' = [r.ex EXCEPT !.pc = @ + 1]
                           /\ UNCHANGED <<status, result>>
                      [] r.tag = "halt" ->
                           /\ ex' = r.ex
                           /\ status' = "returned"
                           /\ result' = ResultOk(r.ex)
                      [] r.tag = "err" ->
                           /\ ex' = r.ex
                           /\ status' = "returned"
                           /\ result' = ResultErr(r.ex, r.err)
                      [] r.tag = "panic" ->
                           /\ ex' = r.ex
                           /\ status' = "panicked"
                           /\ UNCHANGED result
    /\ UNCHANGED <<code, jumpdests, ctx, state0, unitVars>>

\* the loop condition fails: pc has reached the end of the code
ExecExit ==
    /\ status = "running"
    /\ ex.pc >= Len(code)
    /\ status' = "returned"
    /\ result' = ResultOk(ex)
    /\ UNCHANGED <<code, jumpdests, ctx, ex, state, state0, last, unitVars>>

InitFairvm == IdleExec /\ IdleStack /\ IdleMem /\ IdlePre /\ IdleOthers

NextFairvm == ExecStart \/ ExecLoop \/ ExecExit

SpecFairvm == InitFairvm /\ [][NextFairvm]_vars

\* the loop is a plain sequential loop: an enabled iteration is taken
NextLive == ExecStartLive \/ ExecLoop \/ ExecExit

FairFairvm == InitFairvm /\ [][NextLive]_vars /\ WF_vars(NextLive)

\* ------------------------------------------------------------------------
\* A Stack driven through its public API (crate fairvm, evm/stack.rs)
\* ------------------------------------------------------------------------
StackValues == {U256One, U256From(2), U256Max}

StackIndices == 0..(MaxDepthBound + 1)

InitStack ==
    /\ IdleExec
    /\ \E max \in 0..MaxDepthBound : stk = with_max_depth(max)
    /\ stkLast = NoStkLast
    /\ IdleMem
    /\ IdlePre
    /\ IdleOthers

StackCall(name, index, r) ==
    /\ stk' = r.stack
    /\ stkLast' = [call |-> name, index |-> index, before |-> stk,
                   err |-> r.err, val |-> r.val]
    /\ UNCHANGED <<execVars, memVars, pre, lateVars>>

StackPush == \E v \in StackValues : StackCall("push", 0, push(stk, v))

StackPop == StackCall("pop", 0, pop(stk))

StackPeek == StackCall("peek", 0, peek(stk))

StackDup == \E i \in StackIndices : StackCall("dup", i, dup(stk, i))

StackSwap == \E i \in StackIndices : StackCall("swap", i, swap(stk, i))

StackGet == \E i \in StackIndices : StackCall("get", i, get(stk, i))

StackSet ==
    \E i \in StackIndices, v \in StackValues : StackCall("set", i, set(stk, i, v))

StackClear == StackCall("clear", 0, clear(stk))

NextStack ==
    \/ StackPush
    \/ StackPop
    \/ StackPeek
    \/ StackDup
    \/ StackSwap
    \/ StackGet
    \/ StackSet
    \/ StackClear

SpecStack == InitStack /\ [][NextStack]_vars

\* ------------------------------------------------------------------------
\* A Memory driven through its public API (crate fairvm, evm/memory.rs)
\* ------------------------------------------------------------------------
ExpandOffsets == {0, 16, 720, 1000}

StoreOffsets == {0, 16}

LoadOffsets == {0, 16, 1000, UsizeMax}

MemSizes == {0, 32}

\* the word of tests::test_store_and_load
StoredWord == U256From(4660)

\* the bytes of tests::test_store_and_load, and no bytes
StoredBytes == {<<1, 2, 3, 4>>, <<>>}

InitMemory == IdleExec /\ IdleStack /\ IdleMem /\ IdlePre /\ IdleOthers

\* a call that may change the memory; gas is what expand returned in it
MemCall(name, offset, size, m, gas, panic, written) ==
    /\ memHist.calls < MaxMemCalls
    /\ mem' = m
    /\ memLast' = [call |-> name, offset |-> offset, size |-> size,
                   before |-> mem, gas |-> gas, out |-> <<>>, panic |-> panic]
    /\ memHist' = [calls |-> memHist.calls + 1, total |-> memHist.total + gas,
                   written |-> memHist.written \cup written]
    /\ UNCHANGED <<execVars, stackVars, pre, lateVars>>

\* a call that takes &self
MemRead(name, offset, size, r) ==
    /\ memLast' = [call |-> name, offset |-> offset, size |-> size,
                   before |-> mem, gas |-> 0, out |-> r.out, panic |-> r.panic]
    /\ UNCHANGED <<mem, memHist, execVars, stackVars, pre, lateVars>>

MemExpand ==
    \E o \in ExpandOffsets, s \in MemSizes :
        LET e == expand(mem, o, s)
        IN  MemCall("expand", o, s, e.mem, e.gas, FALSE, {})

MemStore32 ==
    \E o \in StoreOffsets :
        MemCall("store32", o, 32, store32(mem, o, StoredWord),
                expand(mem, o, 32).gas, FALSE, o..(o + 31))

MemStore ==
    \E o \in StoreOffsets, v \in StoredBytes :
        LET st == store(mem, o, v)
        IN  MemCall("store", o, Len(v), st.mem, expand(mem, o, Len(v)).gas,
                    st.panic, IF st.panic THEN {} ELSE o..(o + Len(v) - 1))

MemLoad32 ==
    \E o \in LoadOffsets :
        \E r \in LoadOutcomes(mem, o, 32, load32(mem, o)) : MemRead("load32", o, 32, r)

MemLoad ==
    \E o \in LoadOffsets, s \in MemSizes :
        \E r \in LoadOutcomes(mem, o, s, load(mem, o, s)) : MemRead("load", o, s, r)

NextMemory == MemExpand \/ MemStore32 \/ MemStore \/ MemLoad32 \/ MemLoad

SpecMemory == InitMemory /\ [][NextMemory]_vars

\* ------------------------------------------------------------------------
\* The precompiled contracts (crate fairvm, evm/precompiled.rs)
\* ------------------------------------------------------------------------
\* Stands for a digest computed by an external crate (sha2, ripemd, sha3):
\* n bytes that the input determines.
DigestBytes(salt, n, input) ==
    [i \in 1..n |->
        (salt + 7 * i + Len(input)
         + (IF input = <<>> THEN 0 ELSE input[1] + input[Len(input)])) % 256]

PreOk(output, cost) ==
    [ok |-> TRUE, output |-> output, gas |-> cost, err |-> "none"]

PreErr(msg) == [ok |-> FALSE, output |-> <<>>, gas |-> 0, err |-> msg]

GasLimitExceeded == "Gas limit exceeded"

\* EcRecover::gas_cost
EcRecover_gas_cost(input) == 3000

\* the cost of SHA-256 with the word count rounded down
Sha256Hash_gas_cost_FloorWords(input) == 60 + 12 * (Len(input) \div 32)

\* Sha256Hash::gas_cost
Sha256Hash_gas_cost(input) ==
    LET words == div_ceil(Len(input), 32) IN 60 + 12 * words

\* Ripemd160Hash::gas_cost
Ripemd160Hash_gas_cost(input) ==
    LET words == div_ceil(Len(input), 32) IN 600 + 120 * words

\* Identity::gas_cost
Identity_gas_cost(input) ==
    LET words == div_ceil(Len(input), 32) IN 15 + 3 * words

\* EcRecover::execute with the recovery byte tested before the gas
EcRecover_execute_ValidatesFirst(input, gas_limit) ==
    IF Len(input) >= 128 /\ input[33] # 27 /\ input[33] # 28
    THEN {PreErr("Invalid recovery ID")}
    ELSE IF EcRecover_gas_cost(input) > gas_limit THEN {PreErr(GasLimitExceeded)}
    ELSE {PreOk(Zeros(32), EcRecover_gas_cost(input))}

\* EcRecover::execute that refuses an input shorter than 128 bytes
EcRecover_execute_ShortInputFails(input, gas_limit) ==
    IF EcRecover_gas_cost(input) > gas_limit THEN {PreErr(GasLimitExceeded)}
    ELSE IF Len(input) < 128 THEN {PreErr("Invalid input length")}
    ELSE IF input[33] # 27 /\ input[33] # 28 THEN {PreErr("Invalid recovery ID")}
    ELSE {PreErr("Invalid recoverable signature")}

\* EcRecover::execute: the results the call can have.  Whether secp256k1
\* takes r and s for a signature, and whether a key is recovered from it, is
\* decided by an external crate: each answer is possible.
EcRecover_execute(input, gas_limit) ==
    LET cost == EcRecover_gas_cost(input)
    IN  IF cost > gas_limit THEN {PreErr(GasLimitExceeded)}
        ELSE IF Len(input) < 128 THEN {PreOk(Zeros(32), cost)}
        ELSE
    LET v == input[33]
    IN  IF v # 27 /\ v # 28 THEN {PreErr("Invalid recovery ID")}
        ELSE {PreErr("Invalid recoverable signature"),
              PreErr("Failed to recover public key"),
              PreOk(Zeros(12) \o SubSeq(DigestBytes(v, 32, input), 13, 32),
                    cost)}

\* Sha256Hash::execute
Sha256Hash_execute(input, gas_limit) ==
    LET cost == Sha256Hash_gas_cost(input)
    IN  IF cost > gas_limit THEN {PreErr(GasLimitExceeded)}
        ELSE {PreOk(DigestBytes(1, 32, input), cost)}

\* Ripemd160Hash::execute
Ripemd160Hash_execute(input, gas_limit) ==
    LET cost == Ripemd160Hash_gas_cost(input)
    IN  IF cost > gas_limit THEN {PreErr(GasLimitExceeded)}
        ELSE {PreOk(Zeros(12) \o DigestBytes(2, 20, input), cost)}

\* Identity::execute
Identity_execute(input, gas_limit) ==
    LET cost == Identity_gas_cost(input)
    IN  IF cost > gas_limit THEN {PreErr(GasLimitExceeded)}
        ELSE {PreOk(input, cost)}

\* the inputs: b"hello world" of the tests, and for each length a hash, the
\* recovery byte v at index 32, and bytes of r and s
HelloWorld == <<104, 101, 108, 108, 111, 32, 119, 111, 114, 108, 100>>

PreInputs ==
    {HelloWorld}
    \cup {[i \in 1..n |-> IF i = 33 THEN v ELSE (i * 5) % 256] :
            n \in {0, 32, 33, 127, 128, 129}, v \in {0, 27, 28, 29}}

PreGasLimits == {0, 17, 18, 30, 71, 72, 119, 120, 719, 720, 1200, 2999, 3000}

InitPre == IdleExec /\ IdleStack /\ IdleMem /\ IdlePre /\ IdleOthers

PreCall(contract, input, gas_limit, r) ==
    /\ pre' = [contract |-> contract, input |-> input, gas_limit |-> gas_limit,
               ok |-> r.ok, output |-> r.output, gas |-> r.gas, err |-> r.err]
    /\ UNCHANGED <<execVars, stackVars, memVars, lateVars>>

PreEcRecover ==
    \E input \in PreInputs, gas_limit \in PreGasLimits :
        \E r \in EcRecover_execute(input, gas_limit) :
            PreCall("EcRecover", input, gas_limit, r)

PreSha256Hash ==
    \E input \in PreInputs, gas_limit \in PreGasLimits :
        \E r \in Sha256Hash_execute(input, gas_limit) :
            PreCall("Sha256Hash", input, gas_limit, r)

PreRipemd160Hash ==
    \E input \in PreInputs, gas_limit \in PreGasLimits :
        \E r \in Ripemd160Hash_execute(input, gas_limit) :
            PreCall("Ripemd160Hash", input, gas_limit, r)

PreIdentity ==
    \E input \in PreInputs, gas_limit \in PreGasLimits :
        \E r \in Identity_execute(input, gas_limit) :
            PreCall("Identity", input, gas_limit, r)

NextPre == PreEcRecover \/ PreSha256Hash \/ PreRipemd160Hash \/ PreIdentity

SpecPre == InitPre /\ [][NextPre]_vars

\* ------------------------------------------------------------------------
\* Executor::execute (crate fair-vm-core)
\* ------------------------------------------------------------------------
\* the one-byte instructions the enumerated programs are built from
CoreInstrs ==
    {<<PC>>, <<MSIZE>>, <<SLOAD>>, <<SSTORE>>, <<MSTORE>>, <<JUMP>>, <<JUMPI>>,
     <<REVERT>>, <<STOP>>}

RECURSIVE CoreProgramsUpTo(_)
CoreProgramsUpTo(n) ==
    IF n = 0 THEN {<<>>}
    ELSE LET shorter == CoreProgramsUpTo(n - 1)
         IN  shorter \cup {p \o i : p \in shorter, i \in CoreInstrs}

\* tests::test_storage_operations with its PUSH1 operands, which this
\* executor has no arm for
CoreTestStorage == <<PUSH1, 0, PUSH1, 1, SSTORE, PUSH1, 0, SLOAD>>

\* a JUMP loop and a JUMPI loop that run until the gas is used up
CoreJumpLoop == <<JUMPDEST, MSIZE, SLOAD, JUMP>>

CoreJumpiLoop == <<JUMPDEST, PC, MSIZE, SLOAD, JUMPI>>

\* store pc = 1 under key 0 and load it back; the other arms once each
CoreExplicitPrograms ==
    {CoreTestStorage, CoreJumpLoop, CoreJumpiLoop,
     <<MSIZE, JUMP, JUMPDEST>>, <<PC, JUMPDEST, PC, JUMP, STOP>>,
     <<JUMPDEST, MSIZE, MSIZE, SSTORE, MSIZE, JUMP>>,
     <<MSIZE, PC, MSIZE, SSTORE, MSIZE, SLOAD>>,
     <<PC, PC, ADD, STOP>>, <<PC, PC, MUL>>, <<PC, PC, SUB>>, <<PC, PC, DIV>>,
     <<PC, PC, MOD>>, <<PC, PC, LT>>, <<PC, PC, GT>>, <<PC, PC, EQ>>,
     <<PC, ISZERO>>, <<PC, PC, AND>>, <<PC, PC, OR>>, <<PC, PC, XOR>>,
     <<PC, NOT, JUMP>>, <<PC, PC, BYTE>>, <<PC, POP>>, <<MSIZE, MLOAD>>,
     <<GAS, STOP>>, <<MSIZE, MSIZE, RETURN, PC>>, <<UndeclaredByte, STOP>>}

CorePrograms == CoreProgramsUpTo(MaxCoreInstrs) \cup CoreExplicitPrograms

\* gas limits: too small for the base cost of SSTORE, and enough for it
CoreGasLimits == {10, gas_cost(SSTORE) + 30}

IdleCore ==
    /\ code = <<>>
    /\ jumpdests = <<>>
    /\ ctx = [gas_limit |-> 0, is_static |-> FALSE, address |-> ContractAddress]
    /\ ex = ExecutorNew
    /\ state = CoreStateNew
    /\ state0 = CoreStateNew
    /\ status = "idle"
    /\ result = NoResult
    /\ last = NoLast

InitCore == IdleCore /\ IdleStack /\ IdleMem /\ IdlePre /\ IdleOthers

\* Executor::new(state, context), then execute(code) up to its loop
CoreStart ==
    /\ status = "idle"
    /\ code' \in CorePrograms
    /\ jumpdests' = analyze_jumpdests(code')
    /\ ctx' \in [gas_limit : CoreGasLimits, is_static : BOOLEAN,
                 address : {ContractAddress}]
    /\ state' \in {CoreStateNew, CoreStateAttached}
    /\ state0' = state'
    /\ ex' = ExecutorNew
    /\ status' = "running"
    /\ UNCHANGED <<result, last, unitVars>>

\* one iteration of the while loop.  On Ok(false) the loop breaks only when
\* the byte is STOP or RETURN; otherwise the next iteration starts at the
\* pc the arm left.
CoreLoop ==
    /\ status = "running"
    /\ ex.pc < Len(code)
    /\ LET opcode == code[ex.pc + 1]
           r      == core_execute_opcode(ex, opcode, code, jumpdests, ctx, state)
       IN  /\ last' = [acted |-> TRUE, before |-> ex, opcode |-> opcode,
                       cost |-> IF core_from_u8(opcode)
                                THEN core_gas_cost(opcode) ELSE 0,
                       tag |-> r.tag, err |-> r.err]
           /\ state' = r.state
           /\ CASE r.tag = "continue" ->
                     /\ ex' = [r.ex EXCEPT !.pc = @ + 1]
                     /\ UNCHANGED <<status, result>>
                [] r.tag = "halt" /\ opcode \in {STOP, RETURN} ->
                     /\ ex' = r.ex
                     /\ status' = "returned"
                     /\ result' = ResultOk(r.ex)
                [] r.tag = "halt" /\ opcode \notin {STOP, RETURN} ->
                     /\ ex' = r.ex
                     /\ UNCHANGED <<status, result>>
                [] r.tag = "err" ->
                     /\ ex' = r.ex
                     /\ status' = "returned"
                     /\ result' = ResultErr(r.ex, r.err)
                [] r.tag = "panic" ->
                     /\ ex' = r.ex
                     /\ status' = "panicked"
                     /\ UNCHANGED result
    /\ UNCHANGED <<code, jumpdests, ctx, state0, unitVars>>

\* the loop condition fails: pc has reached the end of the code
CoreExit ==
    /\ status = "running"
    /\ ex.pc >= Len(code)
    /\ status' = "returned"
    /\ result' = ResultOk(ex)
    /\ UNCHANGED <<code, jumpdests, ctx, ex, state, state0, last, unitVars>>

NextCore == CoreStart \/ CoreLoop \/ CoreExit

SpecCore == InitCore /\ [][NextCore]_vars

\* ------------------------------------------------------------------------
\* Evm::deploy_contract (crate fairvm, evm/mod.rs)
\* ------------------------------------------------------------------------
MaxDeploys == 2

\* u64::to_be_bytes of a small nonce
to_be_bytes(nonce) == <<0, 0, 0, 0, 0, 0, 0, nonce % 256>>

Keccak256(input) == Bytes(DigestBytes(3, 32, input))

\* Evm::get_nonce
Evm_get_nonce(st, address) ==
    LET account == get_account(st, address)
    IN  IF account = <<>> THEN 0 ELSE account[1].nonce

\* Evm::generate_contract_address: the last 20 bytes of the digest of the
\* creator's bytes followed by the nonce's
generate_contract_address(creator, nonce) ==
    SubSeq(Keccak256(creator \o to_be_bytes(nonce)), 13, 32)

ContractCreationFailed == "Contract creation failed"

\* the account is stored whatever the run's outcome
deploy_contract_finish_StoresAlways(st, contract_address, value, res) ==
    [st |-> set_account(st, [AccountNew(contract_address) EXCEPT
                               !.balance = value]).st,
     ret |-> IF res.success THEN "ok" ELSE "err",
     err |-> res.error]

\* deploy_contract after the run of the init code: on success the account is
\* built and handed to set_account, whose Result is dropped
deploy_contract_finish(st, contract_address, value, res) ==
    IF res.success
    THEN LET account == [AccountNew(contract_address) EXCEPT
                           !.balance = value,
                           !.code_hash = IF res.return_data # <<>>
                                         THEN Keccak256(res.return_data)
                                         ELSE H256Zero]
         IN  [st |-> set_account(st, account).st, ret |-> "ok",
              err |-> NoErr]
    ELSE [st |-> st, ret |-> "err",
          err |-> IF res.error = NoErr THEN Err(ContractCreationFailed)
                  ELSE res.error]

\* the caller of the tests, and another one
DeployCallers == {AddressOf(1), AddressOf(2)}

DeployValues == {U256Zero, U256From(5)}

TestDeployCode == <<PUSH1, 0, PUSH1, 0, MSTORE, PUSH1, 32, PUSH1, 0, RETURN>>

\* init code: the test's, an empty one, one that stops, one that fails on an
\* empty stack, one whose MLOAD offset does not fit usize
DeployPrograms ==
    {TestDeployCode, <<>>, <<STOP>>, <<ADD>>, Push32Max \o <<MLOAD>>}

DeployGasLimits == {2, TestGasLimit}

\* the states an Evm is constructed over: State::new(None), or a
\* MemoryStorage holding nothing or an account of a caller
DeployStates ==
    {StateNew(FALSE, MemoryStorageNew), StateNew(TRUE, MemoryStorageNew)}
        \cup {StateNew(TRUE, MemoryStorage_set_account(MemoryStorageNew,
                   [AccountNew(c) EXCEPT !.nonce = n, !.balance = U256From(7)])) :
                c \in DeployCallers, n \in 0..1}

\* deploy_contract up to the loop of the init-code run: the nonce is read,
\* the address derived, the Executor built over the context.  State reads
\* its backend with blocking_read, which panics on a thread that is driving
\* a tokio runtime (rt).
DeployStart ==
    /\ dep.phase \in {"idle", "done"}
    /\ dep.count < MaxDeploys
    /\ \E st \in (IF dep.count = 0 THEN DeployStates ELSE {dep.st}),
          rt \in (IF dep.count = 0 THEN BOOLEAN ELSE {dep.rt}),
          caller \in DeployCallers, value \in DeployValues,
          program \in DeployPrograms, gas_limit \in DeployGasLimits :
         LET d == [dep EXCEPT !.count = @ + 1, !.st = st, !.st0 = st,
                              !.rt = rt, !.caller = caller, !.value = value,
                              !.err = NoErr]
         IN  IF st.storage /\ rt
             THEN /\ dep' = [d EXCEPT !.phase = "done", !.ret = "panic"]
                  /\ UNCHANGED execVars
             ELSE /\ dep' = [d EXCEPT !.phase = "running", !.ret = "none",
                               !.address = generate_contract_address(caller,
                                             Evm_get_nonce(st, caller))]
                  /\ code' = program
                  /\ jumpdests' = analyze_jumpdests(program)
                  /\ ctx' = [gas_limit |-> gas_limit, is_static |-> FALSE]
                  /\ ex' = ExecutorNew
                  /\ status' = "running"
                  /\ result' = NoResult
                  /\ last' = NoLast
                  /\ UNCHANGED <<state, state0>>
    /\ UNCHANGED restDep

\* deploy_contract after Evm::execute has returned, or the panic of the run
\* unwinding through it
DeployFinish ==
    /\ dep.phase = "running"
    /\ status \in {"returned", "panicked"}
    /\ dep' = IF status = "panicked"
              THEN [dep EXCEPT !.phase = "done", !.ret = "panic"]
              ELSE LET r == deploy_contract_finish(dep.st, dep.address,
                                                   dep.value, result)
                   IN  [dep EXCEPT !.phase = "done", !.st = r.st,
                                   !.ret = r.ret, !.err = r.err]
    /\ UNCHANGED <<execVars, restDep>>

InitDeploy == IdleExec /\ IdleStack /\ IdleMem /\ IdlePre /\ IdleOthers

NextDeploy == DeployStart \/ ExecLoop \/ ExecExit \/ DeployFinish

SpecDeploy == InitDeploy /\ [][NextDeploy]_vars

\* ------------------------------------------------------------------------
\* A State of fair-vm-core (src/state.rs) driven through StateTrait
\* ------------------------------------------------------------------------
MaxBalCalls == 3

BalAddresses == {AddressOf(1), AddressOf(2)}

\* the amounts of tests::test_state, and the largest U256
BalAmounts == {U256From(50), U256From(100), U256Max}

InitBal == IdleExec /\ IdleStack /\ IdleMem /\ IdlePre /\ IdleOthers

\* one call of a StateTrait method with its outcome r
BalCall(name, address, amount, r) ==
    /\ bal.calls < MaxBalCalls
    /\ bal' = [s |-> r.s, calls |-> bal.calls + 1,
               last |-> [call |-> name, address |-> address,
                         amount |-> amount, before |-> bal.s, ret |-> r.ret,
                         val |-> r.val]]
    /\ UNCHANGED <<execVars, stackVars, memVars, pre, restBal>>

BalGetBalance ==
    \E address \in BalAddresses :
        BalCall("get_balance", address, U256Zero,
                core_get_balance(bal.s, address))

BalAddBalance ==
    \E address \in BalAddresses, amount \in BalAmounts :
        BalCall("add_balance", address, amount,
                core_add_balance(bal.s, address, amount))

BalSubBalance ==
    \E address \in BalAddresses, amount \in BalAmounts :
        BalCall("sub_balance", address, amount,
                core_sub_balance(bal.s, address, amount))

BalIncrementNonce ==
    \E address \in BalAddresses :
        BalCall("increment_nonce", address, U256Zero,
                core_increment_nonce(bal.s, address))

NextBal == BalGetBalance \/ BalAddBalance \/ BalSubBalance \/ BalIncrementNonce

SpecBal == InitBal /\ [][NextBal]_vars

\* ------------------------------------------------------------------------
\* Executor::execute called again on the same Executor (fair-vm-core)
\* ------------------------------------------------------------------------
MaxRuns == 3

\* tests::test_basic_arithmetic_operations: the three programs
CoreTestAdd == <<PUSH1, 1, PUSH1, 2, ADD>>

CoreTestMul == <<PUSH1, 2, PUSH1, 3, MUL>>

CoreTestSub == <<PUSH1, 5, PUSH1, 3, SUB>>

\* the programs of the test; programs of opcodes this executor has arms for
ReusePrograms ==
    {CoreTestAdd, CoreTestMul, CoreTestSub, <<PC, MSIZE, ADD>>,
     <<MSIZE, PC, MUL>>, <<MSIZE, MSIZE, RETURN, PC>>, <<PC, STOP>>}

InitReuse == IdleCore /\ IdleStack /\ IdleMem /\ IdlePre /\ IdleOthers

\* execute(code) up to its loop: on the first call the Executor is the one
\* Executor::new built; on a later call it is what the run before left, and
\* nothing is assigned before the loop but jumpdests
CoreExecute ==
    /\ status \in {"idle", "returned"}
    /\ again.count < MaxRuns
    /\ code' \in ReusePrograms
    /\ jumpdests' = analyze_jumpdests(code')
    /\ IF status = "idle"
       THEN /\ ctx' \in [gas_limit : CoreGasLimits, is_static : {FALSE},
                         address : {ContractAddress}]
            /\ state' \in {CoreStateNew, CoreStateAttached}
            /\ state0' = state'
            /\ ex' = ExecutorNew
       ELSE UNCHANGED <<ctx, state, state0, ex>>
    /\ again' = [count |-> again.count + 1, start |-> ex']
    /\ status' = "running"
    /\ result' = NoResult
    /\ UNCHANGED <<last, stackVars, memVars, pre, restAgain>>

NextReuse == CoreExecute \/ CoreLoop \/ CoreExit

SpecReuse == InitReuse /\ [][NextReuse]_vars

\* ------------------------------------------------------------------------
\* Tasks calling StateTrait on a shared State (crate fair-vm, src/state.rs)
\* ------------------------------------------------------------------------
MaxTasks == 2

ConcTasks == 1..MaxTasks

\* amounts below and above half the initial balance of 100; balances stay
\* far below 2^256, so they are written as plain numbers
ConcAmounts == {30, 80}

InitConc == IdleExec /\ IdleStack /\ IdleMem /\ IdlePre /\ IdleOthers

\* State::default() over a MemoryStorage; the account of the address is set
\* with set_account, or not
ConcStart ==
    /\ ~conc.started
    /\ \E exists \in BOOLEAN :
         conc' = [conc EXCEPT !.started = TRUE, !.exists = exists,
                    !.balance = IF exists THEN 100 ELSE 0,
                    !.balance0 = IF exists THEN 100 ELSE 0,
                    !.tasks = [t \in ConcTasks |-> NoTask]]
    /\ UNCHANGED <<execVars, stackVars, memVars, pre, restConc>>

\* a task calls add_balance, sub_balance or increment_nonce on the address
ConcCall ==
    /\ conc.started
    /\ \E t \in ConcTasks, op \in {"add_balance", "sub_balance", "increment_nonce"},
          amount \in ConcAmounts :
         /\ conc.tasks[t].pc = "idle"
         /\ conc' = [conc EXCEPT !.tasks[t] =
                       [NoTask EXCEPT !.pc = "called", !.op = op,
                                      !.amount = IF op = "increment_nonce"
                                                 THEN 1 ELSE amount]]
    /\ UNCHANGED <<execVars, stackVars, memVars, pre, restConc>>

\* the first await of the call: get_balance or get_nonce takes the read
\* lock, reads (0 when there is no account) and releases the lock;
\* sub_balance then returns Err when the balance read is below amount
ConcRead ==
    /\ conc.started
    /\ \E t \in ConcTasks :
         LET task == conc.tasks[t]
             read == IF task.op = "increment_nonce" THEN conc.nonce
                     ELSE conc.balance
         IN  /\ task.pc = "called"
             /\ conc' = [conc EXCEPT !.tasks[t] =
                           IF task.op = "sub_balance" /\ read < task.amount
                           THEN [task EXCEPT !.pc = "done", !.local = read,
                                             !.ret = "err"]
                           ELSE [task EXCEPT !.pc = "read", !.local = read]]
    /\ UNCHANGED <<execVars, stackVars, memVars, pre, restConc>>

\* the second await: set_balance or set_nonce takes the write lock and
\* MemoryStorage assigns the value computed from what was read, when the
\* account exists; the call returns Ok
ConcWrite ==
    /\ conc.started
    /\ \E t \in ConcTasks :
         LET task == conc.tasks[t]
             value == IF task.op = "sub_balance"
                      THEN task.local - task.amount
                      ELSE task.local + task.amount
         IN  /\ task.pc = "read"
             /\ conc' = [conc EXCEPT
                   !.tasks[t] = [task EXCEPT !.pc = "done", !.ret = "ok"],
                   !.balance = IF conc.exists /\ task.op # "increment_nonce"
                               THEN value ELSE @,
                   !.nonce = IF conc.exists /\ task.op = "increment_nonce"
                             THEN value ELSE @,
                   !.added = IF task.op = "add_balance"
                             THEN @ + task.amount ELSE @,
                   !.subtracted = IF task.op = "sub_balance"
                                  THEN @ + task.amount ELSE @,
                   !.increments = IF task.op = "increment_nonce"
                                  THEN @ + 1 ELSE @]
    /\ UNCHANGED <<execVars, stackVars, memVars, pre, restConc>>

NextConc == ConcStart \/ ConcCall \/ ConcRead \/ ConcWrite

SpecConc == InitConc /\ [][NextConc]_vars

\* ------------------------------------------------------------------------
\* EvmContext::transfer of State (crate fairvm, src/state.rs)
\* ------------------------------------------------------------------------
MaxTransfers == 2

\* EvmContext::transfer.  The Results of set_balance are dropped; U256 + U256
\* panics when the sum does not fit 256 bits, after the sender was debited.
transfer(st, from, to, value) ==
    LET from_balance == get_balance(st, from)
    IN  IF U256Lt(from_balance, value) THEN [st |-> st, ret |-> "false"]
        ELSE LET to_balance == get_balance(st, to)
                 st1 == set_balance(st, from,
                                    overflowing_sub(from_balance, value)).st
                 sum == overflowing_add(to_balance, value)
             IN  IF U256Lt(sum, to_balance) THEN [st |-> st1, ret |-> "panic"]
                 ELSE [st |-> set_balance(st1, to, sum).st, ret |-> "true"]

XferAddresses == {AddressOf(1), AddressOf(2), AddressOf(3)}

XferValues == {U256Zero, U256From(5), U256From(100), U256Max}

\* the account of an address with a balance
AccountWith(address, balance) == [AccountNew(address) EXCEPT !.balance = balance]

\* State::new(None), and States over a MemoryStorage in which address 1 has
\* an account, address 2 has one or none, and address 3 has none
XferStates ==
    {StateNew(FALSE, MemoryStorageNew)}
        \cup {StateNew(TRUE, MemoryStorage_set_account(MemoryStorageNew,
                                AccountWith(AddressOf(1), b))) :
                b \in {U256From(100), U256Max}}
        \cup {StateNew(TRUE, MemoryStorage_set_account(
                                MemoryStorage_set_account(MemoryStorageNew,
                                    AccountWith(AddressOf(1), b)),
                                AccountWith(AddressOf(2), U256From(5)))) :
                b \in {U256From(100), U256Max}}

InitXfer == IdleExec /\ IdleStack /\ IdleMem /\ IdlePre /\ IdleOthers

\* the State is constructed
XferStart ==
    /\ ~xfer.started
    /\ \E st \in XferStates :
         xfer' = [xfer EXCEPT !.started = TRUE, !.st = st, !.before = st]
    /\ UNCHANGED <<execVars, stackVars, memVars, pre, restXfer>>

\* one transfer call
XferTransfer ==
    /\ xfer.started
    /\ xfer.calls < MaxTransfers
    /\ \E from \in XferAddresses, to \in XferAddresses, value \in XferValues :
         LET r == transfer(xfer.st, from, to, value)
         IN  xfer' = [xfer EXCEPT !.calls = @ + 1, !.st = r.st,
                        !.before = xfer.st, !.from = from, !.to = to,
                        !.value = value, !.ret = r.ret]
    /\ UNCHANGED <<execVars, stackVars, memVars, pre, restXfer>>

NextXfer == XferStart \/ XferTransfer

SpecXfer == InitXfer /\ [][NextXfer]_vars

\* ------------------------------------------------------------------------
\* A FairVM driven through set_consensus, start and stop, and a
\* BasicConsensus driven through ConsensusEngine
\* ------------------------------------------------------------------------
MaxLifeCalls == 4

InitLife == IdleExec /\ IdleStack /\ IdleMem /\ IdlePre /\ IdleOthers

\* one call on the FairVM with its outcome r
LifeCall(name, r) ==
    /\ life.calls < MaxLifeCalls
    /\ life' = [life EXCEPT !.calls = @ + 1, !.call = name, !.err = r.err,
                            !.vm0 = life.vm, !.vm = r.vm]
    /\ UNCHANGED <<execVars, stackVars, memVars, pre, restLife>>

\* set_consensus with BasicConsensus::new(), or with an engine that has
\* been initialized elsewhere
LifeSetConsensus ==
    \E consensus \in {BasicConsensusNew, [BasicConsensusNew EXCEPT !.state = TRUE]} :
        LifeCall("FairVM::set_consensus",
                 FairVM_set_consensus(life.vm, consensus))

LifeStart == LifeCall("FairVM::start", FairVM_start(life.vm))

LifeStop == LifeCall("FairVM::stop", FairVM_stop(life.vm))

\* one call on the engine with its outcome r
EngineCall(name, r) ==
    /\ life.calls < MaxLifeCalls
    /\ life' = [life EXCEPT
         !.calls = @ + 1, !.call = name, !.err = r.err,
         !.engine0 = life.engine, !.engine = r.c,
         !.started0 = life.started,
         !.initialized = @ \/ (name = "initialize" /\ r.err = "none"),
         !.started = IF r.err # "none" THEN @
                     ELSE IF name = "start" THEN TRUE
                     ELSE IF name = "stop" THEN FALSE ELSE @]
    /\ UNCHANGED <<execVars, stackVars, memVars, pre, restLife>>

EngineInitialize == EngineCall("initialize", Consensus_initialize(life.engine))

EngineStart == EngineCall("start", Consensus_start(life.engine))

EngineStop == EngineCall("stop", Consensus_stop(life.engine))

EngineGetState ==
    EngineCall("get_consensus_state", Consensus_get_consensus_state(life.engine))

NextLife ==
    \/ LifeSetConsensus \/ LifeStart \/ LifeStop
    \/ EngineInitialize \/ EngineStart \/ EngineStop \/ EngineGetState

SpecLife == InitLife /\ [][NextLife]_vars

\* ------------------------------------------------------------------------
\* Claims
\* ------------------------------------------------------------------------
\* cost(words) = 3 * words + words^2 / 512 of the memory of the given size
WordsCost(size) ==
    LET w == div_ceil(size, 32)
    IN  w * GMEMORY + (w * w) \div GMEMORY_QUADRATIC_DENOMINATOR

\* the iteration recorded in last failed with OutOfGas
LastOutOfGas == last.acted /\ last.tag = "err" /\ last.err.kind = "OutOfGas"

\* C1: in every state of a run gas_used <= gas_limit, and so is the gas_used
\* of the result.  An iteration whose base cost would exceed the limit fails
\* with OutOfGas and leaves gas_used as it was; an iteration that fails with
\* OutOfGas later has charged its base cost only, and the memory-expansion
\* cost it refused (the growth of the memory it made) would have exceeded
\* the limit.
C1_GasNeverExceedsLimit ==
    /\ ex.gas_used <= ctx.gas_limit
    /\ status = "returned" => result.gas_used <= ctx.gas_limit
    /\ last.acted =>
         IF last.before.gas_used + last.cost > ctx.gas_limit
         THEN /\ LastOutOfGas
              /\ ex.gas_used = last.before.gas_used
              /\ status = "returned" /\ ~result.success
              /\ result.gas_used = last.before.gas_used
         ELSE LastOutOfGas =>
              /\ ex.gas_used = last.before.gas_used + last.cost
              /\ ex.gas_used + WordsCost(ex.memory.size)
                   - WordsCost(last.before.memory.size) > ctx.gas_limit
              /\ status = "returned" /\ ~result.success
              /\ result.gas_used = ex.gas_used

\* C1 witness: a run failed with OutOfGas at the memory-expansion charge of
\* an MSTORE after gas had been consumed
C1_Witness ==
    /\ LastOutOfGas
    /\ last.opcode = MSTORE
    /\ last.before.gas_used + last.cost <= ctx.gas_limit
    /\ ex.gas_used > 0
    /\ status = "returned"

\* C7: len() never exceeds max_depth; a push, or a dup with a valid index, on
\* a full stack fails with DepthLimitExceeded and leaves the stack as it
\* was; a push on a stack that is not full (so also after one pop from a
\* full one) succeeds and adds the value on top.
C7_DepthLimit ==
    /\ Len(stk.items) <= stk.max_depth
    /\ (stkLast.call = "push" \/ (stkLast.call = "dup"
                                  /\ stkLast.index < Len(stkLast.before.items))) =>
         IF Len(stkLast.before.items) = stk.max_depth
         THEN stkLast.err = Err("DepthLimitExceeded") /\ stk = stkLast.before
         ELSE /\ stkLast.err = NoErr
              /\ Len(stk.items) = Len(stkLast.before.items) + 1
              /\ SubSeq(stk.items, 1, Len(stkLast.before.items))
                   = stkLast.before.items

\* C7 witness: a push on a full stack of positive depth was refused
C7_Witness ==
    /\ stkLast.call = "push"
    /\ stk.max_depth > 0
    /\ Len(stkLast.before.items) = stk.max_depth
    /\ stkLast.err = Err("DepthLimitExceeded")

RECURSIVE PushDataFrom(_, _, _)
PushDataFrom(c, i, acc) ==
    IF i >= Len(c) THEN acc
    ELSE IF c[i + 1] >= PUSH1 /\ c[i + 1] <= PUSH32
         THEN LET n == c[i + 1] - PUSH1 + 1
              IN  PushDataFrom(c, i + 1 + n, acc \cup ((i + 1)..(i + n)))
         ELSE PushDataFrom(c, i + 1, acc)

PushData(c) == PushDataFrom(c, 0, {})

\* the destination word d names a JUMPDEST byte of code outside PUSH data
DestValid(c, d) ==
    /\ FitsWord64(d)
    /\ as_usize(d) < Len(c)
    /\ c[as_usize(d) + 1] = JUMPDEST
    /\ as_usize(d) \notin PushData(c)

\* the iteration recorded in last charged its base cost and then made a jump
\* attempt: a JUMP with a destination on the stack, or a JUMPI with a
\* destination and a non-zero condition
JumpAttempt ==
    LET items == last.before.stack.items
        n     == Len(items)
    IN  /\ last.acted
        /\ last.before.gas_used + last.cost <= ctx.gas_limit
        /\ \/ last.opcode = JUMP /\ n >= 1
           \/ last.opcode = JUMPI /\ n >= 2 /\ ~is_zero(items[n - 1])

JumpDest == last.before.stack.items[Len(last.before.stack.items)]

\* C2: a jump attempt to a valid destination d is accepted (no error, pc
\* becomes d); to any other destination value it fails the run with
\* InvalidJumpdest.
C2_JumpValidated ==
    JumpAttempt =>
        IF DestValid(code, JumpDest)
        THEN last.tag = "halt" /\ ex.pc = as_usize(JumpDest)
        ELSE /\ last.tag = "err" /\ last.err = Err("InvalidJumpdest")
             /\ status = "returned" /\ ~result.success

\* C3: after an accepted JUMP or taken JUMPI the run keeps executing at the
\* destination; the run of test_jumps' bytecode ends with 1 on top of the
\* stack.
C3_JumpResumes ==
    /\ JumpAttempt /\ last.tag = "halt" =>
         status = "running" /\ ex.pc = as_usize(JumpDest)
    /\ code = TestJumps /\ ctx.gas_limit = TestGasLimit /\ status # "running" =>
         /\ Len(ex.stack.items) >= 1
         /\ ex.stack.items[Len(ex.stack.items)] = U256One

\* C4: every execute call eventually returns an ExecutionResult
C4_EventuallyReturns == <>(status = "returned")

ErrorKinds ==
    {"OutOfGas", "Stack.Underflow", "Stack.DepthLimitExceeded",
     "Stack.InvalidIndex", "InvalidOpcode", "InvalidJumpdest", "Stopped",
     "State"}

\* C5: execute never panics; a run that fails reports one of the error kinds
C5_NeverPanics ==
    /\ status # "panicked"
    /\ status = "returned" /\ ~result.success => result.error.kind \in ErrorKinds

\* C6: an iteration that fetches a byte that is no opcode fails with
\* InvalidOpcode(byte) and leaves gas_used, stack, memory and pc unchanged
C6_UnknownByteFailsAtDecode ==
    last.acted /\ last.opcode \notin Declared =>
        /\ last.tag = "err"
        /\ last.err = ErrArg("InvalidOpcode", last.opcode)
        /\ ex = last.before

\* a word of small magnitude read as a two's complement integer, and back
SmallMag(w) ==
    \/ \A i \in 1..(WordLen - 3) : w[i] = 0
    \/ \A i \in 1..(WordLen - 3) : w[i] = 255

Signed(w) ==
    IF w[1] = 0 THEN BytesToNat(w) ELSE 0 - (BytesToNat(bitnot(w)) + 1)

ToWord(z) == IF z >= 0 THEN U256From(z) ELSE bitnot(U256From(0 - z - 1))

ArithRef(opcode, a, b) ==
    CASE opcode = ADD -> ToWord(Signed(a) + Signed(b))
      [] opcode = MUL -> ToWord(Signed(a) * Signed(b))
      [] opcode = SUB -> ToWord(Signed(a) - Signed(b))

C9_StaticSstoreRefused ==
    /\ ctx.is_static => state = state0
    /\ /\ last.acted
       /\ last.opcode = SSTORE
       /\ ctx.is_static
       /\ last.before.gas_used + last.cost <= ctx.gas_limit
       => /\ last.tag = "err"
          /\ last.err = Err("State")
          /\ status = "returned"
          /\ result.success = FALSE
          /\ result.error = Err("State")

\* C9 witness: a static run reached SSTORE with a key and a value on the
\* stack over an attached storage, was refused, and the storage is as before
C9_Witness ==
    /\ ctx.is_static
    /\ last.acted /\ last.opcode = SSTORE
    /\ Len(last.before.stack.items) >= 2
    /\ state0.storage
    /\ last.err = Err("State")
    /\ status = "returned"
    /\ state = state0

\* a word below 2^24, whose value BytesToNat gives as a number
SmallNat(w) == \A i \in 1..(WordLen - 3) : w[i] = 0

\* q and r are the quotient and the remainder of a by b # 0: exactly for
\* small a and b, for b > a, for b = a and for b = 1; for the other pairs
\* r < b, q <= a and q * b + r = a mod 2^256
IsDivRem(a, b, q, r) ==
    IF SmallNat(a) /\ SmallNat(b)
    THEN /\ q = U256From(BytesToNat(a) \div BytesToNat(b))
         /\ r = U256From(BytesToNat(a) % BytesToNat(b))
    ELSE IF U256Lt(a, b) THEN q = U256Zero /\ r = a
    ELSE IF a = b THEN q = U256One /\ r = U256Zero
    ELSE IF b = U256One THEN q = a /\ r = U256Zero
    ELSE /\ U256Lt(r, b)
         /\ ~U256Lt(a, q)
         /\ overflowing_add(overflowing_mul(q, b), r) = a

\* C11: a DIV, resp. MOD, that finds two words a (top) and b pops both and
\* pushes floor(a / b), resp. a mod b, and 0 when b is zero; the run goes on
\* without an error.
C11_DivModByZero ==
    LET items == last.before.stack.items
        n     == Len(items)
    IN  /\ last.acted
        /\ last.opcode \in {DIV, MOD}
        /\ last.before.gas_used + last.cost <= ctx.gas_limit
        /\ n >= 2
        => /\ last.tag = "continue"
           /\ last.err = NoErr
           /\ Len(ex.stack.items) = n - 1
           /\ SubSeq(ex.stack.items, 1, n - 2) = SubSeq(items, 1, n - 2)
           /\ IF is_zero(items[n - 1]) THEN ex.stack.items[n - 1] = U256Zero
              ELSE IF last.opcode = DIV
              THEN IsDivRem(items[n], items[n - 1], ex.stack.items[n - 1],
                            U256Rem(items[n], items[n - 1]))
              ELSE IsDivRem(items[n], items[n - 1],
                            U256Div(items[n], items[n - 1]),
                            ex.stack.items[n - 1])

\* C11 witness: MAX_U256 / 0 was executed, pushed 0, and the run went on
C11_Witness ==
    /\ last.acted /\ last.opcode = DIV /\ last.tag = "continue"
    /\ last.before.stack.items = <<U256Zero, U256Max>>
    /\ ex.stack.items = <<U256Zero>>
    /\ status = "running"

\* C12: a RETURN that finds its two operands and halts the run ends it with
\* success = true and return_data the size bytes of memory from offset; the
\* run of test_basic_arithmetic's bytecode returns the 32 bytes of the word 8.
C12_ReturnData ==
    LET items  == last.before.stack.items
        n      == Len(items)
    IN  /\ last.acted /\ last.opcode = RETURN /\ last.tag = "halt" =>
             /\ status = "returned"
             /\ result.success
             /\ result.return_data =
                  [i \in 1..as_usize(items[n - 1]) |->
                     MemByte(ex.memory, as_usize(items[n]) + i - 1)]
        /\ /\ code = TestBasicArithmetic
           /\ ctx.gas_limit = TestGasLimit
           /\ status = "returned"
           => /\ result.success
              /\ result.return_data = U256From(8)

\* C13: a REVERT that finds its two operands halts the run at once:
\* return_data is the size bytes of memory from offset, no further opcode is
\* executed, and the run does not end with an error of the stack, the opcode
\* or the gas.
C13_RevertHalts ==
    LET items  == last.before.stack.items
        n      == Len(items)
    IN  /\ last.acted
        /\ last.opcode = REVERT
        /\ n >= 2
        /\ FitsWord64(items[n]) /\ FitsWord64(items[n - 1])
        => /\ status = "returned"
           /\ result.error = NoErr
           /\ ex.return_data =
                [i \in 1..as_usize(items[n - 1]) |->
                   MemByte(ex.memory, as_usize(items[n]) + i - 1)]

\* a call that takes &mut self has been made on the Memory
MemChanged == memLast.call \in {"expand", "store", "store32"}

LoadOfUnwritten ==
    /\ memLast.call \in {"load", "load32"}
    /\ \A a \in memLast.offset..(memLast.offset + memLast.size - 1) :
           (memLast.offset >= 0 \/ a < 0) => a \notin memHist.written

\* C15: load and load32 over a range no byte of which was ever written return
\* zero bytes (size of them, resp. the word 0), also when the range lies
\* partly or wholly beyond size(); the call does not fail and changes neither
\* size() nor the buffer.
C15_UnwrittenLoadsZero ==
    LoadOfUnwritten
    => /\ memLast.out = Zeros(memLast.size)
       /\ ~memLast.panic
       /\ mem = memLast.before

\* C16: expand returns cost(new_words) - cost(old_words), with words =
\* ceil(size / 32) and cost(w) = 3 * w + floor(w * w / 512): 0 when the size
\* argument is 0 or the word count does not grow; and the costs returned by
\* the expand calls made so far, in whatever order, add up to the cost of the
\* final word count.
C16_MarginalCost ==
    /\ memLast.call = "expand"
       => /\ memLast.gas = WordsCost(MemSize(mem)) - WordsCost(MemSize(memLast.before))
          /\ memLast.size = 0 => memLast.gas = 0
          /\ div_ceil(MemSize(mem), 32) <= div_ceil(MemSize(memLast.before), 32)
             => memLast.gas = 0
    /\ memHist.total = WordsCost(MemSize(mem))

\* a third growing expand, from 24 words to 33: the linear part is 27, the
\* quadratic part goes from 1 to 2, and the three costs add up to 101
C16_Witness ==
    /\ memLast.call = "expand"
    /\ memHist.calls = 3
    /\ MemSize(memLast.before) = 752
    /\ MemSize(mem) = 1032
    /\ memLast.gas = 28
    /\ memHist.total = 101

\* C17: after an expand, store or store32 call with a non-empty range, the
\* logical size size() reports is a multiple of 32 bytes.
C17_SizeIsWordMultiple ==
    MemChanged /\ memLast.size > 0 /\ ~memLast.panic => MemSize(mem) % 32 = 0

\* a precompile has been called
PreCalled == pre.contract # "none"

\* gas_cost of the contract last called, for its input
PreGasCost ==
    CASE pre.contract = "EcRecover" -> EcRecover_gas_cost(pre.input)
      [] pre.contract = "Sha256Hash" -> Sha256Hash_gas_cost(pre.input)
      [] pre.contract = "Ripemd160Hash" -> Ripemd160Hash_gas_cost(pre.input)
      [] pre.contract = "Identity" -> Identity_gas_cost(pre.input)

\* C18: for each of the four precompiles, execute(input, gas_limit) with
\* gas_cost(input) > gas_limit returns the gas-limit error, whatever the input
\* holds, and with gas_cost(input) <= gas_limit it never returns that error.
C18_GasLimitFirst ==
    PreCalled
    => IF PreGasCost > pre.gas_limit
       THEN ~pre.ok /\ pre.err = GasLimitExceeded
       ELSE pre.err # GasLimitExceeded

\* EcRecover with one unit of gas too few and an input whose recovery byte
\* would be refused: the error is the one of the gas
C18_Witness ==
    /\ pre.contract = "EcRecover"
    /\ Len(pre.input) >= 128
    /\ pre.input[33] = 29
    /\ pre.gas_limit = 2999
    /\ pre.err = GasLimitExceeded

\* the cost the specification gives a precompile for an input of len bytes
PreRefCost(contract, len) ==
    LET words == (len + 31) \div 32
    IN  CASE contract = "EcRecover" -> 3000
          [] contract = "Sha256Hash" -> 60 + 12 * words
          [] contract = "Ripemd160Hash" -> 600 + 120 * words
          [] contract = "Identity" -> 15 + 3 * words

\* C19: the gas of a precompile depends on the length of the input only: 3000
\* for signature recovery, 60 + 12 * ceil(len / 32) for SHA-256,
\* 600 + 120 * ceil(len / 32) for RIPEMD-160, 15 + 3 * ceil(len / 32) for
\* identity; a successful execute reports exactly that as gas used (72, 720
\* and 18 for the 11 bytes of "hello world"), and the output of identity is
\* its input.
C19_GasFromLength ==
    PreCalled
    => /\ PreGasCost = PreRefCost(pre.contract, Len(pre.input))
       /\ pre.ok => pre.gas = PreRefCost(pre.contract, Len(pre.input))
       /\ pre.ok /\ pre.input = HelloWorld
          => /\ pre.contract = "Sha256Hash" => pre.gas = 72
             /\ pre.contract = "Ripemd160Hash" => pre.gas = 720
             /\ pre.contract = "Identity" => pre.gas = 18
       /\ pre.ok /\ pre.contract = "Identity" => pre.output = pre.input

\* SHA-256 of "hello world" with gas to spare, as in tests::test_sha256
C19_Witness ==
    /\ pre.contract = "Sha256Hash"
    /\ pre.input = HelloWorld
    /\ pre.gas_limit > 72
    /\ pre.ok
    /\ pre.gas = 72

DeployReturned == dep.phase = "done" /\ dep.ret \in {"ok", "err"}

\* C21: whenever deploy_contract returns Ok((address, result)), the state
\* afterwards holds an account record at that address whose balance is the
\* value argument and whose code hash is the hash of result.return_data, the
\* zero hash when the return data is empty, whatever backend the State was
\* constructed with.
C21_DeployCreatesAccount ==
    (DeployReturned /\ dep.ret = "ok") =>
        LET account == get_account(dep.st, dep.address)
        IN  /\ account # <<>>
            /\ account[1].balance = dep.value
            /\ account[1].code_hash =
                   IF result.return_data = <<>> THEN H256Zero
                   ELSE Keccak256(result.return_data)

\* C22: when the init-code run fails (success = false), deploy_contract
\* returns Err carrying the run's error, and the state is what it was before
\* the call: no account record is created or modified at the derived
\* address, and the creator's account, its nonce included, is unchanged.
C22_FailedDeployChangesNothing ==
    (DeployReturned /\ ~result.success) =>
        /\ dep.ret = "err"
        /\ result.error # NoErr
        /\ dep.err = result.error
        /\ dep.st = dep.st0
        /\ get_account(dep.st, dep.address) = get_account(dep.st0, dep.address)
        /\ Evm_get_nonce(dep.st, dep.caller) = Evm_get_nonce(dep.st0, dep.caller)

\* a failed deployment at an address where an earlier deployment of the same
\* creator has left an account
C22_Witness ==
    /\ DeployReturned
    /\ ~result.success
    /\ dep.count = 2
    /\ get_account(dep.st, dep.address) # <<>>

\* the balance the State held under the address of the last call, before it
BalBefore == core_get_account(bal.last.before, bal.last.address).balance

\* the balance it holds under that address now
BalAfter == core_get_account(bal.s, bal.last.address).balance

\* C23: sub_balance(address, amount) with amount greater than the account's
\* balance returns an error and leaves the balance unchanged; it never
\* panics, wraps around or leaves the state store unusable for later calls.
\* With amount <= balance it returns Ok and the balance decreases by exactly
\* amount.
C23_SubBalanceChecked ==
    (bal.last.call = "sub_balance" /\ ~bal.last.before.poisoned) =>
        /\ bal.last.ret # "panic"
        /\ ~bal.s.poisoned
        /\ IF U256Lt(BalBefore, bal.last.amount)
           THEN bal.last.ret = "err" /\ BalAfter = BalBefore
           ELSE /\ bal.last.ret = "ok"
                /\ BalAfter = overflowing_sub(BalBefore, bal.last.amount)

\* C24: each execute(code) call is a fresh run: it starts at pc = 0 with
\* gas_used = 0 and empty return data, also when it is called again on an
\* Executor that has already completed a run.
C24_FreshRun ==
    again.count > 0 =>
        /\ again.start.pc = 0
        /\ again.start.gas_used = 0
        /\ again.start.return_data = <<>>

\* C25: storage round trip within a run: after SSTORE has written value v
\* under key k for the contract address, a later SLOAD of k pushes v.  Here
\* for the run of StorageRoundTrip, which writes 7 under key 1 and loads
\* key 1: when it has returned with success, the word on top of the stack
\* is 7.
C25_StorageRoundTrip ==
    (code = StorageRoundTrip /\ status = "returned" /\ result.success) =>
        /\ ex.stack.items # <<>>
        /\ ex.stack.items[Len(ex.stack.items)] = U256From(7)

\* C26: load(offset, size) returns exactly size bytes in which byte i is the
\* byte last stored at address offset + i, or 0 when that address was never
\* written or lies beyond the buffer, also when the range is only partly out
\* of range (the stored bytes, then zero padding); load32 likewise returns
\* the stored bytes zero-padded.
C26_LoadReturnsStored ==
    (memLast.call \in {"load", "load32"} /\ memLast.offset >= 0) =>
        /\ ~memLast.panic
        /\ Len(memLast.out) = memLast.size
        /\ \A i \in 1..memLast.size :
               memLast.out[i] = MemByte(mem, memLast.offset + i - 1)

\* every task that made a call has returned from it
ConcQuiet ==
    /\ conc.started
    /\ \A t \in ConcTasks : conc.tasks[t].pc \in {"idle", "done"}

\* C27: no update of concurrent add_balance, sub_balance and increment_nonce
\* calls on one address is lost: once the calls have returned, the balance is
\* the initial balance plus all added amounts minus all successfully
\* subtracted amounts, and the nonce is the initial nonce plus the number of
\* increment_nonce calls; the subtractions never exceed what was there.
\* Stated for an address whose account exists.
C27_NoLostUpdate ==
    (ConcQuiet /\ conc.exists) =>
        /\ conc.balance = conc.balance0 + conc.added - conc.subtracted
        /\ conc.nonce = conc.increments
        /\ conc.balance0 + conc.added - conc.subtracted >= 0

\* C28: transfer(from, to, value) conserves the total balance: when it
\* returns true the sender's balance has decreased by value and the
\* recipient's has increased by value, the other balances are as they were
\* (for from = to the balance is unchanged, and a recipient with no account
\* record receives the value all the same); when it returns false no balance
\* changes.
C28_TransferConserves ==
    /\ xfer.ret = "true" =>
         \A a \in XferAddresses :
             get_balance(xfer.st, a) =
                 IF xfer.from = xfer.to \/ a \notin {xfer.from, xfer.to}
                 THEN get_balance(xfer.before, a)
                 ELSE IF a = xfer.from
                 THEN overflowing_sub(get_balance(xfer.before, a), xfer.value)
                 ELSE overflowing_add(get_balance(xfer.before, a), xfer.value)
    /\ xfer.ret = "false" =>
         \A a \in XferAddresses :
             get_balance(xfer.st, a) = get_balance(xfer.before, a)

\* C29: FairVM start/stop alternate, with or without BasicConsensus
\* installed: start() succeeds exactly when the FairVM is not running and
\* sets is_running = true, stop() succeeds exactly when it is running and
\* sets is_running = false, a call that fails leaves is_running unchanged,
\* and set_consensus fails while the FairVM is running; so a stopped FairVM
\* can be started again.
C29_StartStopAlternate ==
    /\ life.call = "FairVM::start" =>
         /\ life.err = "none" <=> ~life.vm0.is_running
         /\ life.err = "none" => life.vm.is_running
    /\ life.call = "FairVM::stop" =>
         /\ life.err = "none" <=> life.vm0.is_running
         /\ life.err = "none" => ~life.vm.is_running
    /\ (life.call \in {"FairVM::start", "FairVM::stop",
                        "FairVM::set_consensus"} /\ life.err # "none") =>
         life.vm.is_running = life.vm0.is_running
    /\ (life.call = "FairVM::set_consensus" /\ life.vm0.is_running) =>
         life.err # "none"

\* C30: BasicConsensus: start() before initialize() fails with
\* NotInitialized; stop() on an engine never initialized fails with
\* AlreadyStopped; initialize() on an initialized engine fails with
\* AlreadyStarted and keeps the state; start() on an engine already started
\* fails with AlreadyStarted; get_consensus_state() before initialize()
\* fails with NotInitialized.
C30_EngineErrors ==
    /\ (life.call = "start" /\ ~life.engine0.state) =>
         life.err = "NotInitialized"
    /\ (life.call = "stop" /\ ~life.initialized) =>
         life.err = "AlreadyStopped"
    /\ (life.call = "initialize" /\ life.engine0.state) =>
         life.err = "AlreadyStarted" /\ life.engine = life.engine0
    /\ (life.call = "start" /\ life.started0) =>
         life.err = "AlreadyStarted"
    /\ (life.call = "get_consensus_state" /\ ~life.engine0.state) =>
         life.err = "NotInitialized"

============================================================================
